---- MODULE Spec2Model ----
(***************************************************************************)
(* The order run of alfred: go() and orderFromRestaurant() with their      *)
(* steps, in the Seamless variant (perform.js) and the Grubhub variant     *)
(* (unnamed/part_001).  The ordering website, the user directory, the      *)
(* stats and orders stores and Slack are the environment: every call to    *)
(* them returns or throws nondeterministically.  Money is in whole         *)
(* dollars.                                                                *)
(***************************************************************************)
EXTENDS Integers, Sequences, FiniteSets, TLC

(* ------------------------------ bounds ------------------------------- *)

\* most restaurant batches in one run
MaxBatches == 2
\* most user orders in one batch
MaxUsers == 2

(* ------------------------- program constants ------------------------- *)

INITIAL_RETRIES == 2
\* the literal 25 of fillNames
BUDGET == 25

(* --------------------------- input domains --------------------------- *)

Variants == {"seamless", "grubhub"}
\* identities of the user orders of a batch, by position
Names == <<"a", "b", "c", "d">>
\* restaurant of a batch, by position
Restaurants == <<"r1", "r2", "r3", "r4">>
\* food/beverage subtotals the page can show (foodBevTotal)
Totals == {0, 30}
\* allocation amounts the page can show after the names are entered
Allocs == {12, 25, 30}
\* e.toString() of the exceptions the page and the collaborators raise
TypeErrorText == "TypeError: Cannot read property of undefined"
NavTimeoutText == "TimeoutError: Navigation Timeout Exceeded: 30000ms exceeded"
OtherErrorText == "Error: node is detached from document"
Exc == {TypeErrorText, NavTimeoutText, OtherErrorText}
NoExc == "none"
Undefined == "undefined"

VARIABLES
    variant,      \* which perform module runs
    dryRun,       \* DRY_RUN
    postToSlack,  \* POST_TO_SLACK
    orderSets,    \* Transform.indexByRestaurantAndUser(orders)
    pc,           \* where go() stands
    batch,        \* index of the for loop of go() over orderSets
    retries,      \* the retries argument of the running orderFromRestaurant
    step,         \* the step index of its for loop
    result,       \* its result object
    orderResult,  \* what orderFromRestaurant returned to go()
    results,      \* the results array of go()
    crash,        \* where the exception the catch of go() caught came from
    published,    \* the results handed to Slack.sendFinishedMessage / console.log
    statsLog,     \* the calls of Stats.recordStats
    calleeLog,    \* the calls of Orders.setCallee
    attemptLog,   \* what the running attempt has done on the page so far
    ends,         \* how the attempts of the running orderFromRestaurant ended
    lastAlloc,    \* the allocations fillNames read in the running attempt
    budgetViolation, \* fillNames has reported a budget violation in this call
    applied,      \* the matching function applied to arg, "none" before
    arg,          \* the candidates on the page or in the menu data, and the query
    ret,          \* what the function gave
    stats,        \* the stats collection of the stats module (let stats)
    connect,      \* whether the callback of client.connect has run
    goTimer,      \* whether the timer of setTimeout(go, ...) has fired
    statsOps      \* the stats operations executed, with the stats they found

\* the state of a run of go()
goVars == <<variant, dryRun, postToSlack, orderSets, pc, batch, retries, step,
            result, orderResult, results, crash, published, statsLog, calleeLog,
            attemptLog, ends, lastAlloc, budgetViolation>>

\* the state of one application of a matching function
pureVars == <<applied, arg, ret>>

\* the state of the stats module and of what calls it
statsVars == <<stats, connect, goTimer, statsOps>>

vars == <<goVars, pureVars, statsVars>>

(* ------------------------------ helpers ------------------------------ *)

RECURSIVE SumSeq(_)
SumSeq(s) == IF s = <<>> THEN 0 ELSE Head(s) + SumSeq(Tail(s))

\* users.filter(u => !u.isDonor)
RECURSIVE NonDonors(_)
NonDonors(users) ==
    IF users = <<>> THEN <<>>
    ELSE IF Head(users).isDonor THEN NonDonors(Tail(users))
         ELSE <<Head(users)>> \o NonDonors(Tail(users))

\* the elements of a sequence
Range(f) == {f[i] : i \in DOMAIN f}

\* userOrders.map(o => o.username)
Usernames(users) == [i \in DOMAIN users |-> users[i].username]

\* e.toString().includes("Navigation Timeout Exceeded")
IncludesNavigationTimeout(e) == e = NavTimeoutText

\* e instanceof TypeError
InstanceOfTypeError(e) == e = TypeErrorText

\* one string of an errors array; the budget message carries its numbers
Msg(text) == [text |-> text, excess |-> 0, user |-> Undefined, amount |-> 0]

BudgetText == "Order exceeded budget"
UnknownText == "Order failed for unknown reason."
NoRestaurantText == "Restaurant does not exist or is closed at this time."
MinimumText == "Delivery minimum not met."

\* the object a step returns, orderFromRestaurant accumulates and returns:
\* threw: the step raised instead of returning; defined: it returned an object
Blank ==
    [threw |-> FALSE, defined |-> FALSE, hasErrors |-> FALSE, errors |-> <<>>,
     retry |-> FALSE, hasAmounts |-> FALSE, orderAmounts |-> <<>>,
     hasUser |-> FALSE, user |-> Undefined]

Thrown == [Blank EXCEPT !.threw = TRUE]
\* the step raised e outside its own handlers (errors names what was raised)
Raised(e) == [Thrown EXCEPT !.errors = <<Msg(e)>>]
NoOutput == Blank
Errors(retry, errors) ==
    [Blank EXCEPT !.defined = TRUE, !.hasErrors = TRUE, !.errors = errors, !.retry = retry]
WithAmounts(orderAmounts) ==
    [Blank EXCEPT !.defined = TRUE, !.hasAmounts = TRUE, !.orderAmounts = orderAmounts]
WithUser(user) ==
    [Blank EXCEPT !.defined = TRUE, !.hasUser = TRUE, !.user = user]

\* a result that already carries order amounts
StaleResult == [Blank EXCEPT !.defined = TRUE, !.hasAmounts = TRUE]

\* let result = {}
EmptyResult == [Blank EXCEPT !.defined = TRUE]

\* Object.assign(result, stepOutput)
ObjectAssign(target, source) ==
    [target EXCEPT
        !.hasAmounts = target.hasAmounts \/ source.hasAmounts,
        !.orderAmounts = IF source.hasAmounts THEN source.orderAmounts ELSE target.orderAmounts,
        !.hasUser = target.hasUser \/ source.hasUser,
        !.user = IF source.hasUser THEN source.user ELSE target.user]

\* whether orderAmounts[u] is defined
HasAmount(orderAmounts, u) ==
    \E i \in DOMAIN orderAmounts : orderAmounts[i].username = u

\* orderAmounts[u]: an insertion-ordered map kept as a sequence of entries
\* (0 stands for undefined, which HasAmount tells apart)
AmountOf(orderAmounts, u) ==
    IF \E i \in DOMAIN orderAmounts : orderAmounts[i].username = u
    THEN (LET i == CHOOSE j \in DOMAIN orderAmounts : orderAmounts[j].username = u
          IN  orderAmounts[i].amount)
    ELSE 0


(* ------------------------------ the steps ---------------------------- *)

\* Users.getUser: the record of a registered user (kept as its identity)
Null == "null"
getUser(id, found) == IF found /\ id # Undefined THEN id ELSE Null

\* the steps array of orderFromRestaurant
Steps(v) ==
    IF v = "seamless"
    THEN <<"chooseTime", "chooseRestaurant", "fillOrders", "fillNames", "fillPhoneNumber">>
    ELSE <<"setupRestaurant", "fillOrders", "fillNames", "fillPhoneNumber">>

\* e: what the page raised inside the try block, NoExc when nothing
chooseTime(e) ==
    IF e = NoExc THEN NoOutput
    ELSE Errors(IncludesNavigationTimeout(e), <<Msg(e)>>)

chooseRestaurant(e) ==
    IF e = NoExc THEN NoOutput
    ELSE IF InstanceOfTypeError(e) THEN Errors(FALSE, <<Msg(NoRestaurantText)>>)
    ELSE Errors(TRUE, <<Msg(e)>>)

setupRestaurant(e) ==
    IF e = NoExc THEN NoOutput
    ELSE IF InstanceOfTypeError(e) THEN Errors(FALSE, <<Msg(NoRestaurantText)>>)
    ELSE Errors(TRUE, <<Msg(e)>>)

\* the amounts fillOrders records: per user order the subtotal read after its
\* items minus the subtotal read before (Seamless); nothing (Grubhub, where
\* the two lines are commented out)
RecordedAmounts(v, userOrders, reads) ==
    IF v = "seamless"
    THEN [i \in DOMAIN userOrders |->
            [username |-> userOrders[i].username,
             amount |-> reads[2 * i] - reads[2 * i - 1]]]
    ELSE <<>>

\* fillOrders reporting the unmet delivery minimum with retry: true
fillOrdersRetryMinimum(v, userOrders, reads, e, probe, clickExc) ==
    IF e # NoExc THEN Errors(TRUE, <<Msg(e)>>)
    ELSE IF probe = "throw" THEN Thrown
    ELSE IF probe = "notMet" THEN Errors(TRUE, <<Msg(MinimumText)>>)
    ELSE IF clickExc # NoExc THEN Errors(TRUE, <<Msg(clickExc)>>)
    ELSE WithAmounts(RecordedAmounts(v, userOrders, reads))

\* orderAmounts is an object: orderAmounts.map(...) of the Seamless
\* minimum branch raises this before anything is returned
MapTypeErrorText == "TypeError: orderAmounts.map is not a function"

\* e: raised inside the first try; probe: what reading the continue links /
\* the checkout button gave ("met", "notMet", "throw"); clickExc: raised by
\* the final click or navigation
fillOrders(v, userOrders, reads, e, probe, clickExc) ==
    IF e # NoExc THEN Errors(TRUE, <<Msg(e)>>)
    ELSE IF probe = "throw" THEN Thrown
    ELSE IF probe = "notMet"
         THEN (IF v = "seamless"
               THEN Raised(MapTypeErrorText)
               ELSE Errors(FALSE, <<Msg(MinimumText)>>))
    ELSE IF clickExc # NoExc THEN Errors(TRUE, <<Msg(clickExc)>>)
    ELSE WithAmounts(RecordedAmounts(v, userOrders, reads))

\* Math.max.apply(null, amountAllocated) > limit (Math.max of nothing is -Infinity)
MaxExceeds(amountAllocated, limit) ==
    \E i \in DOMAIN amountAllocated : amountAllocated[i] > limit

\* the reduce over Object.keys(orderAmounts), from { amount: 0 }
RECURSIVE MaxOrderFrom(_, _)
MaxOrderFrom(orderAmounts, memo) ==
    IF orderAmounts = <<>> THEN memo
    ELSE MaxOrderFrom(Tail(orderAmounts),
                      IF Head(orderAmounts).amount > memo.amount
                      THEN Head(orderAmounts)
                      ELSE memo)

maxOrder(orderAmounts) ==
    MaxOrderFrom(orderAmounts, [username |-> Undefined, amount |-> 0])

\* ExceededBudget with >= for >
ExceededBudgetAtCeiling(amountAllocated) ==
    \E i \in DOMAIN amountAllocated : amountAllocated[i] >= BUDGET

\* whether the budget branch of fillNames is taken
ExceededBudget(amountAllocated) == MaxExceeds(amountAllocated, BUDGET)

\* (orderTotal - usernames.length * 25)
Excess(usernames, amountAllocated) ==
    SumSeq(amountAllocated) - Len(usernames) * BUDGET

\* the ids of slackIds other than owner, in order
RECURSIVE WithoutOwner(_, _)
WithoutOwner(slackIds, owner) ==
    IF slackIds = <<>> THEN <<>>
    ELSE IF Head(slackIds) = owner THEN WithoutOwner(Tail(slackIds), owner)
         ELSE <<Head(slackIds)>> \o WithoutOwner(Tail(slackIds), owner)

\* EnteredNames typing the names of the non-donors only
EnteredNamesNonDonors(v, userOrders, owner, throwsAt) ==
    LET ids == Usernames(NonDonors(userOrders))
    IN  IF v = "grubhub" THEN WithoutOwner(ids, owner) ELSE ids

\* the participants whose name the loop of fillNames types, in order: the
\* loop goes over the ids of all user orders; Grubhub skips the one whose
\* directory name is "ajay gandhi" (owner); the iteration throwsAt raises
\* before its name is added, 0 when none does
EnteredNames(v, userOrders, owner, throwsAt) ==
    LET slackIds == Usernames(userOrders)
        done == IF throwsAt = 0 THEN slackIds ELSE SubSeq(slackIds, 1, throwsAt - 1)
    IN  IF v = "grubhub" THEN WithoutOwner(done, owner) ELSE done

\* fillNames reporting the budget violation with retry: true
fillNamesRetryBudget(v, usernames, orderAmounts, entryThrows, amountAllocated, atFound) ==
    IF entryThrows THEN Thrown
    ELSE IF ExceededBudget(amountAllocated)
         THEN Errors(TRUE,
                     <<[text |-> BudgetText,
                        excess |-> Excess(usernames, amountAllocated),
                        user |-> maxOrder(orderAmounts).username,
                        amount |-> maxOrder(orderAmounts).amount]>>)
    ELSE NoOutput

\* entryThrows: entering the names raised (no handler in fillNames);
\* atFound: whether Slack.atUser finds the user it is asked to mention
fillNames(v, usernames, orderAmounts, entryThrows, amountAllocated, atFound) ==
    IF entryThrows THEN Thrown
    ELSE IF ExceededBudget(amountAllocated)
         THEN (LET mo == maxOrder(orderAmounts)
               IN  IF v = "seamless" /\ getUser(mo.username, atFound) = Null
                   THEN Thrown   \* await Slack.atUser(...) rejects
                   ELSE Errors(FALSE,
                               <<[text |-> BudgetText,
                                  excess |-> Excess(usernames, amountAllocated),
                                  user |-> mo.username,
                                  amount |-> mo.amount]>>))
    ELSE NoOutput

\* CalleePool without the donor filter
CalleePoolAll(v, userOrders) == Usernames(userOrders)

\* the identities fillPhoneNumber draws the callee from
CalleePool(v, userOrders) ==
    IF v = "grubhub" THEN Usernames(NonDonors(userOrders)) ELSE Usernames(userOrders)

\* pool[Math.floor(Math.random() * pool.length)], rnd being the floor
Pick(pool, rnd) == IF rnd + 1 \in DOMAIN pool THEN pool[rnd + 1] ELSE Undefined

\* rnd: the random index; found: whether the user directory has the user;
\* e: what the page raised inside the try block
fillPhoneNumber(v, userOrders, rnd, found, e) ==
    LET selectedUser == Pick(CalleePool(v, userOrders), rnd)
        user == getUser(selectedUser, found)
    IN  IF e # NoExc THEN Errors(TRUE, <<Msg(e)>>)
        ELSE IF user = Null THEN Errors(TRUE, <<Msg(TypeErrorText)>>)
        ELSE WithUser(user)

(* ----------------------------- matching ------------------------------ *)

\* most candidates (restaurant names, menu items, links, labels) in one lookup
MaxCands == 2

\* the texts of candidates and queries, as sequences of characters
ExtremePizza == <<"E", "x", "t", "r", "e", "m", "e", " ", "P", "i", "z", "z", "a">>
Extreme == <<"e", "x", "t", "r", "e", "m", "e">>
Pizza == <<"P", "i", "z", "z", "a">>
Sushi == <<"s", "u", "s", "h", "i">>
Texts ==
    {ExtremePizza, Extreme, Pizza, Sushi,
     <<"p">>, <<"P">>, <<"p", "i">>, <<"P", "i">>, <<"p", "i", " ">>, <<"s">>}

\* the lists of candidates of one lookup, in iteration order
CandidateLists == UNION {[1..n -> Texts] : n \in 0..MaxCands}

\* String.prototype.toLowerCase on one character
Lower(c) ==
    CASE c = "E" -> "e"
      [] c = "P" -> "p"
      [] OTHER -> c

\* toLowerCase as the identity
toLowerCaseKeep(t) == t

toLowerCase(t) == [i \in DOMAIN t |-> Lower(t[i])]

\* text.includes(q)
includes(t, q) ==
    \E i \in 0..(Len(t) - Len(q)) : SubSeq(t, i + 1, i + Len(q)) = q

\* String.prototype.trim: the text without its leading and trailing blanks
RECURSIVE trim(_)
trim(t) ==
    IF t = <<>> THEN t
    ELSE IF Head(t) = " " THEN trim(Tail(t))
    ELSE IF t[Len(t)] = " " THEN trim(SubSeq(t, 1, Len(t) - 1))
    ELSE t

\* the position of no candidate: {} of the reduces, undefined of the loops
NotFound == 0

\* names.reduce((memo, name) => matches(name) ? name : memo, {}) from
\* position k on: every matching candidate replaces the memo
RECURSIVE ReduceIncludes(_, _, _, _)
ReduceIncludes(names, q, k, memo) ==
    IF k > Len(names) THEN memo
    ELSE ReduceIncludes(names, q, k + 1,
                        IF includes(toLowerCase(names[k]), toLowerCase(q))
                        THEN k
                        ELSE memo)

\* REST_NAMES: the keys of MENU_DATA; the result stands for MENU_DATA[name]
find_restaurant_by_name(REST_NAMES, rest_name) ==
    ReduceIncludes(REST_NAMES, rest_name, 1, NotFound)

\* menu: the names of MENU_DATA[restaurant].menu; the result stands for the item
find_item_by_name(menu, item_name) ==
    ReduceIncludes(menu, item_name, 1, NotFound)

\* for (const anchor of restLinks) if (text.includes(restaurant)) ourRest = anchor
RECURSIVE ourRestFrom(_, _, _, _)
ourRestFrom(restLinks, restaurant, k, memo) ==
    IF k > Len(restLinks) THEN memo
    ELSE ourRestFrom(restLinks, restaurant, k + 1,
                     IF includes(restLinks[k], restaurant) THEN k ELSE memo)

ourRest(restLinks, restaurant) == ourRestFrom(restLinks, restaurant, 1, NotFound)

\* for (const anchor of itemLinks) if (text === item) { anchor.click(); break; }
\* from position k on, text being the trimmed text of the anchor
RECURSIVE FirstSame(_, _, _)
FirstSame(itemLinks, item, k) ==
    IF k > Len(itemLinks) THEN NotFound
    ELSE IF trim(itemLinks[k]) = item THEN k
    ELSE FirstSame(itemLinks, item, k + 1)

\* the anchor fillOrders clicks for an item: Seamless keeps the last anchor
\* whose lower-cased text includes the lower-cased item, Grubhub clicks the
\* first anchor whose trimmed text is the item and breaks
ourItem(v, itemLinks, item) ==
    IF v = "seamless"
    THEN ReduceIncludes(itemLinks, item, 1, NotFound)
    ELSE FirstSame(itemLinks, item, 1)

\* for (const input of optionLinks) { ... if (done) break; } from position
\* k on: the first label whose lower-cased text includes the lower-cased
\* option is clicked
RECURSIVE FirstIncludes(_, _, _)
FirstIncludes(optionLinks, opt, k) ==
    IF k > Len(optionLinks) THEN NotFound
    ELSE IF includes(toLowerCase(optionLinks[k]), toLowerCase(opt)) THEN k
    ELSE FirstIncludes(optionLinks, opt, k + 1)

\* the label the Seamless option loop clicks
ourOption(optionLinks, opt) == FirstIncludes(optionLinks, opt, 1)

\* e.toString() of what puppeteer raises when a selector matches nothing
WaitTimeoutText == "TimeoutError: waiting for selector failed: timeout 30000ms exceeded"
NoNodeText == "Error: No node found for selector"

\* what the try block of chooseRestaurant raises: before from reading the
\* links, the TypeError of ourRest.click() on undefined, after from the
\* click and the navigation
chooseRestaurantRaises(restLinks, restaurant, before, after) ==
    IF before # NoExc THEN before
    ELSE IF ourRest(restLinks, restaurant) = NotFound THEN TypeErrorText
    ELSE after

\* what the try block of setupRestaurant raises: shown are the results the
\* autocomplete of the site shows for the typed restaurant; the click on the
\* first result finds no node when there is none
setupRestaurantRaises(shown, before, after) ==
    IF before # NoExc THEN before
    ELSE IF shown = <<>> THEN NoNodeText
    ELSE after

\* addItemRaises when an anchor is always found
addItemRaisesNever(v, itemLinks, item) == NoExc

\* what adding one item raises inside the try block of fillOrders: Seamless
\* calls click on undefined, Grubhub waits for a dialog that never opens
addItemRaises(v, itemLinks, item) ==
    IF ourItem(v, itemLinks, item) # NotFound THEN NoExc
    ELSE IF v = "seamless" THEN TypeErrorText
    ELSE WaitTimeoutText

\* nothing applied yet
NoArg ==
    [texts |-> <<>>, query |-> <<>>, before |-> NoExc, after |-> NoExc,
     users |-> <<>>, owner |-> Undefined, throwsAt |-> 0, alloc |-> <<>>]
NoRet == [entered |-> <<>>, hit |-> NotFound, out |-> Blank]

(* ------------------------ orderFromRestaurant ------------------------ *)

\* the catch of go() letting the exception go on
afterCatchRethrow == "rejected"

\* where go() continues after its catch block: the publishing of the results
afterCatch == "publish"

\* the batch go() is at
orderSet == orderSets[batch]

\* stepDecision with the retry test off by one: a fourth attempt
stepDecisionOneMore(out, retriesLeft) ==
    IF out.threw THEN "caught"
    ELSE IF out.defined /\ out.hasErrors
         THEN (IF out.retry /\ retriesLeft >= 0 THEN "again" ELSE "return")
    ELSE "next"

\* stepDecision without the test of stepOutput.retry: every failure is retried
stepDecisionRetryAll(out, retriesLeft) ==
    IF out.threw THEN "caught"
    ELSE IF out.defined /\ out.hasErrors
         THEN (IF retriesLeft > 0 THEN "again" ELSE "return")
    ELSE "next"

\* stepDecision without the test of stepOutput.errors: failures fall through
stepDecisionFallThrough(out, retriesLeft) ==
    IF out.threw THEN "caught" ELSE "next"

\* stepDecision without the try/catch around the steps
stepDecisionNoCatch(out, retriesLeft) ==
    IF out.threw THEN "propagate"
    ELSE IF out.defined /\ out.hasErrors
         THEN (IF out.retry /\ retriesLeft > 0 THEN "again" ELSE "return")
    ELSE "next"

\* what the loop over the steps does with a step's outcome: "caught" (the
\* step raised, inside the try of orderFromRestaurant), "again" (the
\* recursive call), "return" (return stepOutput) or "next" (go on to the
\* next step); "propagate" would be an exception leaving orderFromRestaurant
stepDecision(out, retriesLeft) ==
    IF out.threw THEN "caught"
    ELSE IF out.defined /\ out.hasErrors
         THEN (IF out.retry /\ retriesLeft > 0 THEN "again" ELSE "return")
    ELSE "next"

\* what the catch block returns
Caught == Errors(FALSE, <<Msg(UnknownText)>>)

\* how the outcome of a step shows in the logs
EventKind(out) ==
    IF out.threw THEN "throw"
    ELSE IF out.defined /\ out.hasErrors THEN (IF out.retry THEN "retryable" ELSE "fatal")
    ELSE "ok"

Event(name, out) == [step |-> name, kind |-> EventKind(out), errors |-> out.errors]

\* the step `name` has run and given `out`: the body of the for loop over
\* the steps, the recursive call and the catch block
RunStep(name, out) ==
    LET d == stepDecision(out, retries)
    IN  /\ pc = "steps"
        /\ Steps(variant)[step] = name
        /\ IF d = "again"
           THEN /\ retries' = retries - 1
                /\ step' = 1
                /\ result' = EmptyResult
                /\ attemptLog' = <<>>
                /\ ends' = Append(ends, EventKind(out))
                /\ UNCHANGED <<pc, orderResult, crash>>
           ELSE IF d = "next"
           THEN /\ result' = IF out.defined THEN ObjectAssign(result, out) ELSE result
                /\ step' = step + 1
                /\ pc' = IF step = Len(Steps(variant)) THEN "submit" ELSE "steps"
                /\ attemptLog' = Append(attemptLog, Event(name, out))
                /\ UNCHANGED <<retries, orderResult, ends, crash>>
           ELSE \* the frame and its locals are gone
                /\ retries' = INITIAL_RETRIES
                /\ step' = 1
                /\ result' = EmptyResult
                /\ attemptLog' = Append(attemptLog, Event(name, out))
                /\ ends' = Append(ends, EventKind(out))
                /\ IF d = "propagate"
                   THEN /\ pc' = afterCatch
                        /\ crash' = "order"
                        /\ UNCHANGED orderResult
                   ELSE /\ pc' = "returned"
                        /\ orderResult' = IF d = "caught" THEN Caught ELSE out
                        /\ UNCHANGED crash
        /\ UNCHANGED <<pureVars, statsVars, variant, dryRun, postToSlack, orderSets, batch, results,
                       published, statsLog, calleeLog>>

ChooseTime ==
    /\ \E e \in Exc \cup {NoExc} : RunStep("chooseTime", chooseTime(e))
    /\ UNCHANGED <<lastAlloc, budgetViolation>>

ChooseRestaurant ==
    /\ \E e \in Exc \cup {NoExc} : RunStep("chooseRestaurant", chooseRestaurant(e))
    /\ UNCHANGED <<lastAlloc, budgetViolation>>

SetupRestaurant ==
    /\ \E e \in Exc \cup {NoExc} : RunStep("setupRestaurant", setupRestaurant(e))
    /\ UNCHANGED <<lastAlloc, budgetViolation>>

FillOrders ==
    /\ pc = "steps"
    /\ Steps(variant)[step] = "fillOrders"
    /\ \E e \in Exc \cup {NoExc}, probe \in {"met", "notMet", "throw"},
          clickExc \in Exc \cup {NoExc},
          reads \in [1..(2 * Len(orderSet.users)) -> Totals] :
            /\ (e # NoExc \/ probe # "met" \/ clickExc # NoExc)
                  => reads = [i \in 1..(2 * Len(orderSet.users)) |-> 0]
            /\ (e # NoExc) => (probe = "met" /\ clickExc = NoExc)
            /\ (probe # "met") => clickExc = NoExc
            /\ RunStep("fillOrders",
                       fillOrders(variant, orderSet.users, reads, e, probe, clickExc))
    /\ UNCHANGED <<lastAlloc, budgetViolation>>

FillNames ==
    /\ pc = "steps"
    /\ Steps(variant)[step] = "fillNames"
    /\ \E entryThrows \in BOOLEAN, atFound \in BOOLEAN,
          amountAllocated \in [1..Len(orderSet.users) -> Allocs] :
        LET out == fillNames(variant, Usernames(orderSet.users), result.orderAmounts,
                             entryThrows, amountAllocated, atFound)
        IN  /\ entryThrows =>
                 (atFound /\ amountAllocated = [i \in 1..Len(orderSet.users) |-> BUDGET])
            /\ RunStep("fillNames", out)
            /\ lastAlloc' = IF entryThrows \/ stepDecision(out, retries) = "again"
                            THEN <<>> ELSE amountAllocated
            /\ budgetViolation' = (out.hasErrors /\ out.errors[1].text = BudgetText)

FillPhoneNumber ==
    /\ pc = "steps"
    /\ Steps(variant)[step] = "fillPhoneNumber"
    /\ \E e \in Exc \cup {NoExc}, found \in BOOLEAN,
          rnd \in 0..(Len(orderSet.users) - 1) :
            /\ (e # NoExc) => (found /\ rnd = 0)
            /\ RunStep("fillPhoneNumber",
                       fillPhoneNumber(variant, orderSet.users, rnd, found, e))
    /\ lastAlloc' = <<>>
    /\ UNCHANGED budgetViolation

\* SubmitEvents without the DRY_RUN branch
SubmitEventsActual(dry, failAt) ==
    IF failAt = "click" THEN <<"click">> ELSE <<"click", "pdf">>

\* the page actions of "Submit order", in order, up to the one that raised:
\* failAt is "none", "click" (click or navigation raised) or "pdf"
SubmitEvents(dry, failAt) ==
    IF dry THEN <<"pdf">>
    ELSE IF failAt = "click" THEN <<"click">>
    ELSE <<"click", "pdf">>

Submit ==
    /\ pc = "submit"
    /\ \E failAt \in {"none", "click", "pdf"} :
        /\ (dryRun => failAt # "click")
        /\ attemptLog' = attemptLog \o
              [i \in DOMAIN SubmitEvents(dryRun, failAt) |->
                  [step |-> SubmitEvents(dryRun, failAt)[i], kind |-> "issued",
                   errors |-> <<>>]]
        /\ orderResult' = IF failAt = "none" THEN result ELSE Caught
        /\ ends' = Append(ends, IF failAt = "none" THEN "success" ELSE "throw")
    /\ pc' = "returned"
    /\ retries' = INITIAL_RETRIES
    /\ step' = 1
    /\ result' = EmptyResult
    /\ UNCHANGED <<pureVars, statsVars, variant, dryRun, postToSlack, orderSets, batch, results, crash,
                   published, statsLog, calleeLog, lastAlloc, budgetViolation>>

(* -------------------------------- go --------------------------------- *)

\* the user orders a run can be given for one restaurant; the Seamless
\* module knows no donors
UserLists(v) ==
    UNION {{[i \in 1..n |-> [username |-> Names[i], isDonor |-> d[i]]] :
               d \in [1..n -> IF v = "grubhub" THEN BOOLEAN ELSE {FALSE}]} :
           n \in 1..MaxUsers}

OrderSetsOf(v) ==
    UNION {{[i \in 1..k |-> [restaurant |-> Restaurants[i], users |-> us[i]]] :
               us \in [1..k -> UserLists(v)]} :
           k \in 0..MaxBatches}

Init ==
    /\ variant \in Variants
    /\ dryRun \in BOOLEAN
    /\ postToSlack \in BOOLEAN
    /\ orderSets \in OrderSetsOf(variant)
    /\ pc = "start"
    /\ batch = 1
    /\ retries = INITIAL_RETRIES
    /\ step = 1
    /\ result = EmptyResult
    /\ orderResult = Blank
    /\ results = <<>>
    /\ crash = "none"
    /\ published = <<>>
    /\ statsLog = <<>>
    /\ calleeLog = <<>>
    /\ attemptLog = <<>>
    /\ ends = <<>>
    /\ lastAlloc = <<>>
    /\ budgetViolation = FALSE
    /\ applied = "none"
    /\ arg = NoArg
    /\ ret = NoRet
    /\ stats = Undefined
    /\ connect = "pending"
    /\ goTimer = "pending"
    /\ statsOps = <<>>

\* after the body of the for loop: the next order set, or past the loop
AfterBatch(b) == IF b < Len(orderSets) THEN "loop" ELSE "publish"

\* getOrders, the exit on no orders, the browser launch
Start ==
    /\ pc = "start"
    /\ \E launched \in BOOLEAN :
        pc' = IF Len(orderSets) = 0 THEN "exited"
              ELSE IF launched THEN "login" ELSE "rejected"
    /\ UNCHANGED <<pureVars, statsVars, variant, dryRun, postToSlack, orderSets, batch, retries, step,
                   result, orderResult, results, crash, published, statsLog,
                   calleeLog, attemptLog, ends, lastAlloc, budgetViolation>>

\* loginToSeamless / loginToGrubhub inside the try of go()
Login ==
    /\ pc = "login"
    /\ \E ok \in BOOLEAN :
        /\ pc' = IF ok THEN "loop" ELSE afterCatch
        /\ crash' = IF ok THEN crash ELSE "login"
    /\ UNCHANGED <<pureVars, statsVars, variant, dryRun, postToSlack, orderSets, batch, retries, step,
                   result, orderResult, results, published, statsLog, calleeLog,
                   attemptLog, ends, lastAlloc, budgetViolation>>

\* orderFromRestaurant(page, orderSet.restaurant, orderSet.users, INITIAL_RETRIES)
CallOrderFromRestaurant ==
    /\ pc = "loop"
    /\ pc' = "steps"
    /\ retries' = INITIAL_RETRIES
    /\ step' = 1
    /\ result' = EmptyResult
    /\ attemptLog' = <<>>
    /\ UNCHANGED <<pureVars, statsVars, variant, dryRun, postToSlack, orderSets, batch, orderResult,
                   results, crash, published, statsLog, calleeLog, ends, lastAlloc,
                   budgetViolation>>

\* the users a failed entry lists
FailedUsers(v, os) == IF v = "grubhub" THEN NonDonors(os.users) ELSE os.users

\* pushResult that drops the failed order sets
pushResultOnlySuccess(rs, v, os, r) ==
    IF r.hasErrors THEN rs
    ELSE Append(rs, [successful |-> TRUE, restaurant |-> os.restaurant,
                     users |-> <<>>, errors |-> <<>>,
                     userCall |-> r.user, confirmationUrl |-> os.restaurant])

\* results.push({...}) for the result of one order set
pushResult(rs, v, os, r) ==
    IF r.hasErrors
    THEN Append(rs, [successful |-> FALSE, restaurant |-> os.restaurant,
                     users |-> FailedUsers(v, os), errors |-> r.errors,
                     userCall |-> Undefined, confirmationUrl |-> Undefined])
    ELSE Append(rs, [successful |-> TRUE, restaurant |-> os.restaurant,
                     users |-> <<>>, errors |-> <<>>,
                     userCall |-> r.user, confirmationUrl |-> os.restaurant])

\* AfterPush with no pause after a failed order set
AfterPushNoPause(r, dry) == IF ~r.hasErrors /\ ~dry THEN "stats" ELSE "loop"

\* AfterPush entering the stats block whatever the result
AfterPushAlways(r, dry) == "stats"

\* where go() continues after results.push: the else branch with !DRY_RUN
\* records the stats, everything else goes to the pause
AfterPush(r, dry) == IF ~r.hasErrors /\ ~dry THEN "stats" ELSE "pause"

PushResult ==
    /\ pc = "returned"
    /\ results' = pushResult(results, variant, orderSet, orderResult)
    /\ pc' = AfterPush(orderResult, dryRun)
    /\ attemptLog' = <<>>
    /\ ends' = <<>>
    /\ lastAlloc' = <<>>
    /\ budgetViolation' = FALSE
    /\ UNCHANGED <<pureVars, statsVars, variant, dryRun, postToSlack, orderSets, batch, retries, step,
                   result, orderResult, crash, published, statsLog, calleeLog>>

\* StatsUsers without the donor filter
StatsUsersAll(v, os) == os.users

\* the user orders whose stats are recorded
StatsUsers(v, os) == IF v = "grubhub" THEN NonDonors(os.users) ELSE os.users

\* statsCalls passing the callee flag with every call
statsCallsAllCallee(v, os, r) ==
    [i \in DOMAIN StatsUsers(v, os) |->
        [username |-> StatsUsers(v, os)[i].username,
         restaurant |-> os.restaurant,
         hasDollars |-> HasAmount(r.orderAmounts, StatsUsers(v, os)[i].username),
         dollars |-> AmountOf(r.orderAmounts, StatsUsers(v, os)[i].username),
         isCallee |-> TRUE]]

\* the Stats.recordStats calls of one successful order set
statsCalls(v, os, r) ==
    [i \in DOMAIN StatsUsers(v, os) |->
        [username |-> StatsUsers(v, os)[i].username,
         restaurant |-> os.restaurant,
         hasDollars |-> HasAmount(r.orderAmounts, StatsUsers(v, os)[i].username),
         dollars |-> AmountOf(r.orderAmounts, StatsUsers(v, os)[i].username),
         isCallee |-> (r.user = StatsUsers(v, os)[i].username)]]

\* await Promise.all(users.map(... Stats.recordStats(...)))
RecordStats ==
    /\ pc = "stats"
    /\ statsLog' = statsLog \o statsCalls(variant, orderSet, orderResult)
    /\ \E ok \in BOOLEAN :
        /\ pc' = IF ~ok THEN afterCatch
                 ELSE IF variant = "grubhub" THEN "callee" ELSE "pause"
        /\ crash' = IF ok THEN crash ELSE "stats"
        /\ orderResult' = IF ok THEN orderResult ELSE Blank
    /\ UNCHANGED <<pureVars, statsVars, variant, dryRun, postToSlack, orderSets, batch, retries, step,
                   result, results, published, calleeLog, attemptLog, ends, lastAlloc,
                   budgetViolation>>

\* await Orders.setCallee(orderResult.user.slackId)
SetCallee ==
    /\ pc = "callee"
    /\ calleeLog' = Append(calleeLog, orderResult.user)
    /\ \E ok \in BOOLEAN :
        /\ pc' = IF ok THEN "pause" ELSE afterCatch
        /\ crash' = IF ok THEN crash ELSE "callee"
        /\ orderResult' = IF ok THEN orderResult ELSE Blank
    /\ UNCHANGED <<pureVars, statsVars, variant, dryRun, postToSlack, orderSets, batch, retries, step,
                   result, results, published, statsLog, attemptLog, ends, lastAlloc,
                   budgetViolation>>

\* await page.waitFor(5000), then the next order set
Pause ==
    /\ pc = "pause"
    /\ \E ok \in BOOLEAN :
        /\ pc' = IF ok THEN AfterBatch(batch) ELSE afterCatch
        /\ crash' = IF ok THEN crash ELSE "pause"
        /\ batch' = IF ok /\ batch < Len(orderSets) THEN batch + 1 ELSE batch
    /\ orderResult' = Blank   \* the const of the loop body goes out of scope
    /\ UNCHANGED <<pureVars, statsVars, variant, dryRun, postToSlack, orderSets, retries, step, result,
                   results, published, statsLog, calleeLog, attemptLog, ends,
                   lastAlloc, budgetViolation>>

\* AfterPublish publishing again when the message was not sent
AfterPublishAgain(sent) == IF sent THEN "exit" ELSE "publish"

\* after the publishing: on to the exit, or the rejection of
\* sendFinishedMessage leaves go()
AfterPublish(sent) == IF sent THEN "exit" ELSE "rejected"

\* the texts sendFinishedMessage passes to sendMessage
LooksGoodText == "Everything looks good! I'll put in the order at 3:30pm."
ProblemsText == "There are problems with"
OrderedText == "Alfred ordered from the following restaurants for delivery at 5:30pm."

\* parts.filter(p => !p.successful)
Failures(parts) == {k \in DOMAIN parts : ~parts[k].successful}

\* the text of the message sendFinishedMessage(parts, dry) sends
FinishedText(parts, dry) ==
    IF dry
    THEN IF Failures(parts) = {} THEN LooksGoodText ELSE ProblemsText
    ELSE OrderedText

\* Slack.sendFinishedMessage(results, DRY_RUN) or console.log(results)
Publish ==
    /\ pc = "publish"
    /\ published' = Append(published, results)
    /\ \E sent \in BOOLEAN :
        /\ (~postToSlack) => sent
        /\ pc' = AfterPublish(sent)
    /\ UNCHANGED <<pureVars, statsVars, variant, dryRun, postToSlack, orderSets, batch, retries, step,
                   result, orderResult, results, crash, statsLog, calleeLog,
                   attemptLog, ends, lastAlloc, budgetViolation>>

\* browser.close() (Seamless only) and process.exit(0)
Exit ==
    /\ pc = "exit"
    /\ \E closed \in BOOLEAN :
        /\ (variant = "grubhub") => closed
        /\ pc' = IF closed THEN "exited" ELSE "rejected"
    /\ UNCHANGED <<pureVars, statsVars, variant, dryRun, postToSlack, orderSets, batch, retries, step,
                   result, orderResult, results, crash, published, statsLog,
                   calleeLog, attemptLog, ends, lastAlloc, budgetViolation>>

Next ==
    \/ Start
    \/ Login
    \/ CallOrderFromRestaurant
    \/ ChooseTime
    \/ ChooseRestaurant
    \/ SetupRestaurant
    \/ FillOrders
    \/ FillNames
    \/ FillPhoneNumber
    \/ Submit
    \/ PushResult
    \/ RecordStats
    \/ SetCallee
    \/ Pause
    \/ Publish
    \/ Exit

Spec == Init /\ [][Next]_vars

(* ------------------- the matching functions applied ------------------ *)

\* the inputs of one lookup: candidates and a query
MatchArgs ==
    [texts : CandidateLists, query : Texts, before : {NoExc}, after : {NoExc},
     users : {<<>>}, owner : {Undefined}, throwsAt : {0}, alloc : {<<>>}]

\* the inputs of one fillNames call: the user orders of the order set, the
\* participant whose directory name is the ordering account's (Undefined
\* when none), the iteration whose name entry raises (0 when none) and the
\* allocations the page shows afterwards
NameArgs(v) ==
    UNION {[texts : {<<>>}, query : {<<>>}, before : {NoExc}, after : {NoExc},
            users : {us}, owner : {Undefined} \cup {us[i].username : i \in DOMAIN us},
            throwsAt : 0..Len(us), alloc : [1..Len(us) -> Allocs]] :
           us \in UserLists(v)}

\* one application of a function to its inputs; go() is not running
PureInit ==
    /\ variant \in Variants
    /\ dryRun = TRUE
    /\ postToSlack = FALSE
    /\ orderSets = <<>>
    /\ pc = "exited"
    /\ batch = 1
    /\ retries = INITIAL_RETRIES
    /\ step = 1
    /\ result = EmptyResult
    /\ orderResult = Blank
    /\ results = <<>>
    /\ crash = "none"
    /\ published = <<>>
    /\ statsLog = <<>>
    /\ calleeLog = <<>>
    /\ attemptLog = <<>>
    /\ ends = <<>>
    /\ lastAlloc = <<>>
    /\ budgetViolation = FALSE
    /\ applied = "none"
    /\ arg \in MatchArgs \cup NameArgs(variant)
    /\ ret = NoRet
    /\ stats = Undefined
    /\ connect = "pending"
    /\ goTimer = "pending"
    /\ statsOps = <<>>

\* no two candidates have the same text (the keys of an object)
Distinct(texts) == \A i, j \in DOMAIN texts : texts[i] = texts[j] => i = j

FindRestaurantByName ==
    /\ applied = "none"
    /\ arg.users = <<>>
    /\ Distinct(arg.texts)
    /\ applied' = "find_restaurant_by_name"
    /\ ret' = [entered |-> <<>>, hit |-> find_restaurant_by_name(arg.texts, arg.query), out |-> Blank]
    /\ UNCHANGED <<goVars, statsVars, arg>>

FindItemByName ==
    /\ applied = "none"
    /\ arg.users = <<>>
    /\ applied' = "find_item_by_name"
    /\ ret' = [entered |-> <<>>, hit |-> find_item_by_name(arg.texts, arg.query), out |-> Blank]
    /\ UNCHANGED <<goVars, statsVars, arg>>

\* chooseRestaurant on a page whose restaurant links show arg.texts
SelectRestaurant ==
    /\ applied = "none"
    /\ arg.users = <<>>
    /\ variant = "seamless"
    /\ \E before \in Exc \cup {NoExc}, after \in Exc \cup {NoExc} :
        /\ (before # NoExc \/ ourRest(arg.texts, arg.query) = NotFound) => after = NoExc
        /\ arg' = [arg EXCEPT !.before = before, !.after = after]
        /\ ret' = [entered |-> <<>>, hit |-> IF before # NoExc THEN NotFound
                                             ELSE ourRest(arg.texts, arg.query),
                                     out |-> chooseRestaurant(
                                                chooseRestaurantRaises(arg.texts, arg.query, before, after))]
    /\ applied' = "chooseRestaurant"
    /\ UNCHANGED <<goVars, statsVars>>

\* setupRestaurant when the autocomplete shows arg.texts for arg.query
SearchRestaurant ==
    /\ applied = "none"
    /\ arg.users = <<>>
    /\ variant = "grubhub"
    /\ \E before \in Exc \cup {NoExc}, after \in Exc \cup {NoExc} :
        /\ (before # NoExc \/ arg.texts = <<>>) => after = NoExc
        /\ arg' = [arg EXCEPT !.before = before, !.after = after]
        /\ ret' = [entered |-> <<>>, hit |-> IF before # NoExc \/ arg.texts = <<>> THEN NotFound ELSE 1,
                                     out |-> setupRestaurant(setupRestaurantRaises(arg.texts, before, after))]
    /\ applied' = "setupRestaurant"
    /\ UNCHANGED <<goVars, statsVars>>

\* one item of fillOrders on a page whose item links show arg.texts
AddItem ==
    /\ applied = "none"
    /\ arg.users = <<>>
    /\ applied' = "addItem"
    /\ ret' = [entered |-> <<>>, hit |-> ourItem(variant, arg.texts, arg.query),
                                 out |-> IF addItemRaises(variant, arg.texts, arg.query) = NoExc
                                         THEN NoOutput
                                         ELSE fillOrders(variant, <<>>, <<>>,
                                                         addItemRaises(variant, arg.texts, arg.query),
                                                         "met", NoExc)]
    /\ UNCHANGED <<goVars, statsVars, arg>>

\* one option of an item (Seamless) when the labels show arg.texts
SelectOption ==
    /\ applied = "none"
    /\ arg.users = <<>>
    /\ variant = "seamless"
    /\ applied' = "selectOption"
    /\ ret' = [entered |-> <<>>, hit |-> ourOption(arg.texts, arg.query), out |-> NoOutput]
    /\ UNCHANGED <<goVars, statsVars, arg>>

\* fillNames on the user orders arg.users, after a fillOrders that read the
\* subtotal 0 before and arg.alloc[i] after the items of user order i;
\* Slack.atUser finds its user
EnterNames ==
    /\ applied = "none"
    /\ arg.users # <<>>
    /\ applied' = "fillNames"
    /\ ret' = [entered |-> EnteredNames(variant, arg.users, arg.owner, arg.throwsAt),
               hit |-> NotFound,
               out |-> fillNames(variant, Usernames(arg.users),
                                 RecordedAmounts(variant, arg.users,
                                                 [k \in 1..(2 * Len(arg.users)) |->
                                                    IF k % 2 = 0 THEN arg.alloc[k \div 2]
                                                    ELSE 0]),
                                 arg.throwsAt # 0, arg.alloc, TRUE)]
    /\ UNCHANGED <<goVars, statsVars, arg>>

PureNext ==
    \/ FindRestaurantByName
    \/ FindItemByName
    \/ SelectRestaurant
    \/ SearchRestaurant
    \/ AddItem
    \/ SelectOption
    \/ EnterNames

PureSpec == PureInit /\ [][PureNext]_vars

(* ----------------------- the chat command handler -------------------- *)

\* priv.slackIncomingToken
slackIncomingToken == "secret"

\* the texts of ctx.body
LateText == "Alfred has already ordered for today."
RegisterText == "Please register your info first."

\* the commands dfParse returns; "unknown" is any other one
Commands ==
    {"Regular Order", "Forget", "Order Favorite", "Announce", "Set Favorite",
     "Get", "Set Info", "Stats", "Help", "unknown"}

\* now.getHours() and now.getMinutes() of the request
Hours == {0, 14, 15, 16, 23}
Minutes == {0, 30, 31, 59}

\* !x of a request field: undefined and the empty string are falsy
Falsy(x) == x = Undefined \/ x = ""

\* the most orders of today an Announce request finds
MaxOrders == 3

\* the orders of today: no two of one user
OrderLists ==
    {os \in UNION {[1..n -> [username : {"a", "b", "c"}, restaurant : {"r1", "r2"}]] :
                      n \in 0..MaxOrders} :
        \A i, j \in DOMAIN os : os[i].username = os[j].username => i = j}

\* Orders.getOrderForUser(username): the positions of the user's order
OrderOf(orders, username) == {i \in DOMAIN orders : orders[i].username = username}

\* Fellows without the filter
FellowsAll(orders, restaurant) == [i \in DOMAIN orders |-> orders[i].username]

\* (await Orders.getOrders()).filter(o => o.restaurant === restaurant),
\* mapped to the usernames
RECURSIVE Fellows(_, _)
Fellows(orders, restaurant) ==
    IF orders = <<>> THEN <<>>
    ELSE IF Head(orders).restaurant = restaurant
         THEN <<Head(orders).username>> \o Fellows(Tail(orders), restaurant)
         ELSE Fellows(Tail(orders), restaurant)

\* the requests of one command with what the collaborators answer to it:
\* registered (Users.getUser finds the user), hasFavorite (you.favorite),
\* fixedError (fixRestaurantAndOrders returns an error), forgetWhat
\* (args["forget-what"]), removed (Orders.removeOrder returns the order),
\* hasOrder and isCallee (Orders.getOrderForUser), getWhat (args["get-what"]),
\* hasInfo (given-name and phone-number present), statsOf (which stats),
\* orders (Orders.getOrders), known (Users.getUser finds every other user
\* who has an order); the time is drawn for the commands that read it
RequestsOf(c) ==
    [token : {slackIncomingToken, "other"},
     text : {Undefined, "", "text"},
     user_name : {Undefined, "", "slackbot", "a"},
     hour : IF c \in {"Regular Order", "Forget", "Order Favorite"} THEN Hours ELSE {0},
     minute : IF c \in {"Regular Order", "Forget", "Order Favorite"} THEN Minutes ELSE {0},
     command : {c},
     registered : BOOLEAN,
     hasFavorite : IF c \in {"Order Favorite", "Get"} THEN BOOLEAN ELSE {FALSE},
     fixedError : IF c \in {"Regular Order", "Set Favorite"} THEN BOOLEAN ELSE {FALSE},
     forgetWhat : IF c = "Forget" THEN {"info", "favorite", "fav", "order"} ELSE {"order"},
     removed : IF c = "Forget" THEN BOOLEAN ELSE {FALSE},
     hasOrder : IF c = "Get" THEN BOOLEAN ELSE {FALSE},
     orders : IF c = "Announce" THEN OrderLists ELSE {<<>>},
     known : IF c = "Announce" THEN BOOLEAN ELSE {TRUE},
     isCallee : IF c = "Announce" THEN BOOLEAN ELSE {FALSE},
     getWhat : IF c = "Get" THEN {"info", "order"} ELSE {"order"},
     hasInfo : IF c = "Set Info" THEN BOOLEAN ELSE {FALSE},
     statsOf : IF c = "Stats" THEN {"global", "restaurant", "user"} ELSE {"user"}]

Requests == UNION {RequestsOf(c) : c \in Commands}

\* isLate with the cutoff at 15:00
isLateFrom15(hour, minute) == hour > 14

\* isLate(), for the local time hour:minute
isLate(hour, minute) == hour > 15 \/ (hour > 14 /\ minute > 30)

\* what a call of the handler leaves: ctx.body (Undefined when not set),
\* the users the text addresses, whether next() was called, whether the
\* handler rejected, and the calls
\* made on the users, orders and stats stores, in order
Reply(body, calls) ==
    [body |-> body, at |-> <<>>, next |-> TRUE, threw |-> FALSE, calls |-> calls]
Ignored ==
    [body |-> Undefined, at |-> <<>>, next |-> FALSE, threw |-> FALSE, calls |-> <<>>]
Rejected(calls) ==
    [body |-> Undefined, at |-> <<>>, next |-> FALSE, threw |-> TRUE, calls |-> calls]

\* the text of the Announce reply
FoodText == "Food is here!"

\* the Announce reply: the users in fellows are addressed with atUser
Announced(fellows, calls) == [Reply(FoodText, calls) EXCEPT !.at = fellows]

\* the store calls that write
StoreWrites ==
    {"Orders.addOrder", "Orders.removeOrder", "Users.removeUser",
     "Users.removeFavorite", "Users.saveFavorite", "Users.addUser"}
OrderWrites == {"Orders.addOrder", "Orders.removeOrder"}

\* Slack.atUser(username): one read of the users store
atUser == <<"Users.getUser">>

\* one Slack.atUser per element of a list
RECURSIVE atUsers(_)
atUsers(names) == IF names = <<>> THEN <<>> ELSE atUser \o atUsers(Tail(names))

\* the guards of do() passing every request on to the switch
rejectsRequestNever(r) == FALSE

\* the three guards at the head of do()
rejectsRequest(r) ==
    \/ r.token # slackIncomingToken
    \/ Falsy(r.text) \/ Falsy(r.user_name)
    \/ r.user_name = "slackbot"

\* the switch of do() on the parsed command, after Users.getUser
switch(r) ==
    LET late == isLate(r.hour, r.minute)
        got == <<"Users.getUser">>
    IN  CASE r.command = "Regular Order" ->
               IF late THEN Reply(LateText, got)
               ELSE IF ~r.registered THEN Reply(RegisterText, got)
               ELSE IF r.fixedError THEN Reply("Please reorder!", got)
               ELSE Reply("Added", got \o <<"Orders.addOrder">>)
          [] r.command = "Forget" ->
               IF ~r.registered THEN Reply(RegisterText, got)
               ELSE IF r.forgetWhat = "info"
                    THEN Reply("Removed user", got \o <<"Users.removeUser">>)
               ELSE IF r.forgetWhat \in {"favorite", "fav"}
                    THEN Reply("Removed favorite",
                               got \o <<"Users.removeFavorite">> \o atUser)
               ELSE IF late THEN Reply(LateText, got)
               ELSE IF ~r.removed THEN Rejected(got \o <<"Orders.removeOrder">>)
               ELSE Reply("Removed order", got \o <<"Orders.removeOrder">>)
          [] r.command = "Order Favorite" ->
               IF late THEN Reply(LateText, got)
               ELSE IF ~r.registered THEN Reply(RegisterText, got)
               ELSE IF ~r.hasFavorite THEN Reply("No favorite order saved", got)
               ELSE Reply("Ordered", got \o <<"Orders.addOrder">>)
          [] r.command = "Announce" ->
               IF ~r.registered THEN Reply(RegisterText, got)
               ELSE IF OrderOf(r.orders, r.user_name) = {}
                    THEN Reply("You don't have an order today.",
                               got \o <<"Orders.getOrderForUser">>)
               ELSE IF ~r.isCallee
                    THEN Reply("You weren't the designated callee.",
                               got \o <<"Orders.getOrderForUser">>)
               ELSE LET yourOrder == r.orders[CHOOSE i \in OrderOf(r.orders, r.user_name) : TRUE]
                        fellows == Fellows(r.orders, yourOrder.restaurant)
                        read == got \o <<"Orders.getOrderForUser", "Orders.getOrders">>
                                    \o atUsers(fellows)
                    IN  IF ~r.known /\ \E k \in DOMAIN fellows : fellows[k] # r.user_name
                        THEN Rejected(read)   \* u.slackId of atUser
                        ELSE Announced(fellows, read)
          [] r.command = "Set Favorite" ->
               IF ~r.registered THEN Reply(RegisterText, got)
               ELSE IF r.fixedError THEN Reply("Please re-enter!", got)
               ELSE Reply("Saved favorite", got \o <<"Users.saveFavorite">>)
          [] r.command = "Get" ->
               IF r.getWhat = "info"
               THEN IF ~r.registered THEN Reply("No info saved.", got)
                    ELSE Reply("info", got \o atUser)
               ELSE IF ~r.registered THEN Reply(RegisterText, got)
               ELSE IF r.hasOrder
                    THEN Reply("Your current order", got \o <<"Orders.getOrderForUser">>)
               ELSE Reply("You haven't submitted an order for today.",
                          got \o <<"Orders.getOrderForUser">>)
          [] r.command = "Set Info" ->
               IF ~r.hasInfo THEN Reply("Please enter your name and phone number.", got)
               ELSE Reply("Added information", got \o <<"Users.addUser">> \o atUser)
          [] r.command = "Stats" ->
               IF r.statsOf = "global"
               THEN Reply("Global stats", got \o <<"Stats.getGlobalStats">>)
               ELSE IF ~r.registered THEN Rejected(got \o atUser)   \* u.slackId of atUser
               ELSE IF r.statsOf = "restaurant"
                    THEN Reply("Stats from restaurant",
                               got \o atUser \o <<"Stats.getStatsForUserFromRestaurant">>)
               ELSE Reply("General stats", got \o atUser \o <<"Stats.getStatsForUser">>)
          [] r.command = "Help" -> Reply("Help", got)
          [] OTHER -> Reply("I didn't get that.", got)

\* do() taking every requester for a registered one
doAsRegistered(r) ==
    IF rejectsRequest(r) THEN Ignored ELSE switch([r EXCEPT !.registered = TRUE])

\* module.exports.do on the request r
do(r) == IF rejectsRequest(r) THEN Ignored ELSE switch(r)

\* one request to the handler; go() is not running
ChatInit ==
    /\ variant \in Variants
    /\ dryRun = TRUE
    /\ postToSlack = FALSE
    /\ orderSets = <<>>
    /\ pc = "exited"
    /\ batch = 1
    /\ retries = INITIAL_RETRIES
    /\ step = 1
    /\ result = EmptyResult
    /\ orderResult = Blank
    /\ results = <<>>
    /\ crash = "none"
    /\ published = <<>>
    /\ statsLog = <<>>
    /\ calleeLog = <<>>
    /\ attemptLog = <<>>
    /\ ends = <<>>
    /\ lastAlloc = <<>>
    /\ budgetViolation = FALSE
    /\ applied = "none"
    /\ arg \in Requests
    /\ ret = Ignored
    /\ stats = Undefined
    /\ connect = "pending"
    /\ goTimer = "pending"
    /\ statsOps = <<>>

Do ==
    /\ applied = "none"
    /\ applied' = "do"
    /\ ret' = do(arg)
    /\ UNCHANGED <<goVars, statsVars, arg>>

ChatNext == Do

ChatSpec == ChatInit /\ [][ChatNext]_vars

(* ---------------------- the stats module starting -------------------- *)

\* the most stats operations followed in one process
MaxOps == 3

\* the operations the stats module exports to the chat commands
StatsQueries ==
    {"getStatsForUserFromRestaurant", "getStatsForUser", "getGlobalStats"}

\* the module is loaded: client.connect is under way, setTimeout(go, ...) is
\* set, no operation has run; go() itself is not followed here
StatsInit ==
    /\ variant \in Variants
    /\ dryRun = FALSE
    /\ postToSlack = FALSE
    /\ orderSets = <<>>
    /\ pc = "start"
    /\ batch = 1
    /\ retries = INITIAL_RETRIES
    /\ step = 1
    /\ result = EmptyResult
    /\ orderResult = Blank
    /\ results = <<>>
    /\ crash = "none"
    /\ published = <<>>
    /\ statsLog = <<>>
    /\ calleeLog = <<>>
    /\ attemptLog = <<>>
    /\ ends = <<>>
    /\ lastAlloc = <<>>
    /\ budgetViolation = FALSE
    /\ applied = "none"
    /\ arg = NoArg
    /\ ret = NoRet
    /\ stats = Undefined
    /\ connect = "pending"
    /\ goTimer = "pending"
    /\ statsOps = <<>>

\* the callback of client.connect: with err it logs and goes on; client.db
\* of a client that is not connected may raise, stats then stays undefined
ConnectCallback ==
    /\ connect = "pending"
    /\ connect' = "done"
    /\ \E err \in BOOLEAN, dbRaises \in BOOLEAN :
        /\ dbRaises => err
        /\ stats' = IF dbRaises THEN stats ELSE "collection"
    /\ UNCHANGED <<goVars, pureVars, goTimer, statsOps>>

\* the timer of setTimeout(go, 6000) (5000 in the Seamless module) fires
GoTimerFires ==
    /\ goTimer = "pending"
    /\ goTimer' = "fired"
    /\ UNCHANGED <<goVars, pureVars, stats, connect, statsOps>>

\* statsOps after the operation op has run on whatever stats holds
\* (stats.findOne, stats.find or stats.findOneAndUpdate)
Ran(op) == Append(statsOps, [op |-> op, stats |-> stats])

\* go(), started by the timer, reaches Stats.recordStats
RecordStatsCall ==
    /\ goTimer = "fired"
    /\ Len(statsOps) < MaxOps
    /\ statsOps' = Ran("recordStats")
    /\ UNCHANGED <<goVars, pureVars, stats, connect, goTimer>>

\* a Stats chat command reaches one of the queries
StatsCommand ==
    /\ Len(statsOps) < MaxOps
    /\ \E op \in StatsQueries : statsOps' = Ran(op)
    /\ UNCHANGED <<goVars, pureVars, stats, connect, goTimer>>

StatsNext ==
    \/ ConnectCallback
    \/ GoTimerFires
    \/ RecordStatsCall
    \/ StatsCommand

StatsSpec == StatsInit /\ [][StatsNext]_vars

(* ------------------------ the command parser ------------------------- *)

\* the longest string given to splitOutsideParens
MaxStr == 4

\* the characters of the strings: a letter, the blank, the comma and the
\* two brackets
Chars == {"a", " ", ",", "[", "]"}

\* the strings, as sequences of characters
Strings == UNION {[1..n -> Chars] : n \in 0..MaxStr}

\* str.slice(from, to), both counted from 0
slice(str, from, to) == SubSeq(str, from + 1, to)

\* the statement after the loop of splitOutsideParens
lastSegment(str, start, res) ==
    IF start # Len(str) - 1
    THEN Append(res, trim(slice(str, start, Len(str))))
    ELSE res

\* the loop of splitOutsideParens from index i on (counted from 0), then
\* the statement after it
RECURSIVE splitFrom(_, _, _, _, _)
splitFrom(str, i, insideParens, start, res) ==
    IF i >= Len(str) THEN lastSegment(str, start, res)
    ELSE LET c == str[i + 1]
             inside == IF c = "]" THEN FALSE
                       ELSE IF c = "[" THEN TRUE
                       ELSE insideParens
         IN  IF c = "," /\ ~inside
             THEN splitFrom(str, i + 1, inside, i + 1,
                            Append(res, trim(slice(str, start, i))))
             ELSE splitFrom(str, i + 1, inside, start, res)

splitOutsideParens(str) == splitFrom(str, 0, FALSE, 0, <<>>)

\* go() is not running and the stats module is not followed
Idle ==
    /\ variant = "seamless"
    /\ dryRun = TRUE
    /\ postToSlack = FALSE
    /\ orderSets = <<>>
    /\ pc = "exited"
    /\ batch = 1
    /\ retries = INITIAL_RETRIES
    /\ step = 1
    /\ result = EmptyResult
    /\ orderResult = Blank
    /\ results = <<>>
    /\ crash = "none"
    /\ published = <<>>
    /\ statsLog = <<>>
    /\ calleeLog = <<>>
    /\ attemptLog = <<>>
    /\ ends = <<>>
    /\ lastAlloc = <<>>
    /\ budgetViolation = FALSE
    /\ stats = Undefined
    /\ connect = "pending"
    /\ goTimer = "pending"
    /\ statsOps = <<>>

\* one string to split
SplitInit ==
    /\ Idle
    /\ applied = "none"
    /\ arg \in Strings
    /\ ret = <<>>

SplitOutsideParens ==
    /\ applied = "none"
    /\ applied' = "splitOutsideParens"
    /\ ret' = splitOutsideParens(arg)
    /\ UNCHANGED <<goVars, statsVars, arg>>

SplitNext == SplitOutsideParens

SplitSpec == SplitInit /\ [][SplitNext]_vars

(* --------------------------- the top dishes -------------------------- *)

N_TOP_DISHES == 3

\* the highest count of one dish in one stats document
MaxCount == 2

\* the keys of the stats documents, in the order Object.keys gives them:
\* the users, the restaurants of a document and the items of a restaurant
UserKeys == <<"u1", "u2">>
RestaurantKeys == <<"r1", "r2">>
ItemKeys == <<"w", "x", "y", "z">>

\* the dishes a stats document can hold a count for
Cells ==
    {<<"u1", "r1", "w">>, <<"u1", "r1", "x">>, <<"u1", "r1", "y">>, <<"u1", "r1", "z">>,
     <<"u1", "r2", "x">>, <<"u2", "r1", "x">>, <<"u2", "r2", "x">>}

\* the stats collection: the count of every dish, 0 when the document has
\* no key for it
Collections == [Cells -> 0..MaxCount]

\* pulled.restaurants[r].items[i] of the document of u
CountOf(c, u, r, i) == IF <<u, r, i>> \in Cells THEN c[<<u, r, i>>] ELSE 0

\* the document of u has the restaurant r; the collection has a document of u
HasRestaurant(c, u, r) == \E i \in Range(ItemKeys) : CountOf(c, u, r, i) > 0
HasDocument(c, u) == \E r \in Range(RestaurantKeys) : HasRestaurant(c, u, r)

\* the elements of keys that satisfy has, in order
RECURSIVE KeysWith(_, _)
KeysWith(keys, has) ==
    IF keys = <<>> THEN <<>>
    ELSE IF Head(keys) \in has THEN <<Head(keys)>> \o KeysWith(Tail(keys), has)
    ELSE KeysWith(Tail(keys), has)

\* a sequence without the later occurrences of its elements: the keys of an
\* object filled in that order
RECURSIVE FirstOccurrences(_)
FirstOccurrences(keys) ==
    IF keys = <<>> THEN <<>>
    ELSE LET front == FirstOccurrences(SubSeq(keys, 1, Len(keys) - 1))
         IN  IF keys[Len(keys)] \in Range(front) THEN front
             ELSE Append(front, keys[Len(keys)])

\* the tops array as it is after splice
keepAll(tops) == tops

\* if (tops.length > N_TOP_DISHES) tops.pop()
keepTop(tops) ==
    IF Len(tops) > N_TOP_DISHES THEN SubSeq(tops, 1, Len(tops) - 1) ELSE tops

\* tops.splice(i, 0, dish), i counted from 0
splice(tops, i, dish) == SubSeq(tops, 1, i) \o <<dish>> \o SubSeq(tops, i + 1, Len(tops))

\* the for loop of the reduce callbacks from index i on
RECURSIVE place(_, _, _)
place(tops, dish, i) ==
    IF i >= N_TOP_DISHES THEN tops
    ELSE IF i >= Len(tops) \/ dish.count > tops[i + 1].count
         THEN keepTop(splice(tops, i, dish))
    ELSE place(tops, dish, i + 1)

\* the reduce over the dishes, from the array tops
RECURSIVE reduceTops(_, _)
reduceTops(dishes, tops) ==
    IF dishes = <<>> THEN tops
    ELSE reduceTops(Tail(dishes), place(tops, Head(dishes), 0))

\* the dishes of the document of u at r, in the order of its items keys
DishesAt(c, u, r) ==
    LET items == KeysWith(ItemKeys, {i \in Range(ItemKeys) : CountOf(c, u, r, i) > 0})
    IN  [k \in DOMAIN items |->
            [itemName |-> items[k], restaurant |-> r, count |-> CountOf(c, u, r, items[k])]]

RECURSIVE DishesOver(_, _, _)
DishesOver(c, u, rs) ==
    IF rs = <<>> THEN <<>> ELSE DishesAt(c, u, Head(rs)) \o DishesOver(c, u, Tail(rs))

DishesOfUser(c, u) ==
    DishesOver(c, u, KeysWith(RestaurantKeys,
                              {r \in Range(RestaurantKeys) : HasRestaurant(c, u, r)}))

\* restaurantData of getTopDishes: the dishes of all documents, one user
\* after the other
RECURSIVE RestaurantData(_, _)
RestaurantData(c, us) ==
    IF us = <<>> THEN <<>> ELSE DishesOfUser(c, Head(us)) \o RestaurantData(c, Tail(us))

\* crd of getTopDishes as dishes: the restaurants and their items in the
\* order they were first met, the counts of all users added up
Consolidated(c) ==
    LET data == RestaurantData(c, UserKeys)
        keys == FirstOccurrences([k \in DOMAIN data |-> <<data[k].restaurant, data[k].itemName>>])
        byRestaurant ==
            FirstOccurrences([k \in DOMAIN data |-> data[k].restaurant])
        ordered(r) == KeysWith(keys, {key \in Range(keys) : key[1] = r})
        total(key) == SumSeq([k \in DOMAIN data |->
                                IF <<data[k].restaurant, data[k].itemName>> = key
                                THEN data[k].count ELSE 0])
        RECURSIVE over(_)
        over(rs) ==
            IF rs = <<>> THEN <<>>
            ELSE [k \in DOMAIN ordered(Head(rs)) |->
                    [itemName |-> ordered(Head(rs))[k][2], restaurant |-> Head(rs),
                     count |-> total(ordered(Head(rs))[k])]] \o over(Tail(rs))
    IN  over(byRestaurant)

\* what a top-dishes function gives: an array, undefined or an exception
Tops(tops) == [tops |-> tops, undefined |-> FALSE, threw |-> FALSE]
NoTops == [tops |-> <<>>, undefined |-> TRUE, threw |-> FALSE]
TopsThrown == [tops |-> <<>>, undefined |-> FALSE, threw |-> TRUE]

getTopDishesForRestaurant(c, slackId, restaurant) ==
    IF ~HasDocument(c, slackId) THEN NoTops
    ELSE IF ~HasRestaurant(c, slackId, restaurant) THEN TopsThrown
    ELSE Tops(reduceTops(DishesAt(c, slackId, restaurant), <<>>))

getTopDishesForUser(c, slackId) ==
    IF ~HasDocument(c, slackId) THEN NoTops
    ELSE Tops(reduceTops(DishesOfUser(c, slackId), <<>>))

getTopDishes(c) == Tops(reduceTops(Consolidated(c), <<>>))

\* a stats collection and one query on it
DishInit ==
    /\ Idle
    /\ applied = "none"
    /\ arg \in [counts : Collections, slackId : {Undefined}, restaurant : {Undefined}]
    /\ ret = NoTops

GetTopDishesForRestaurant ==
    /\ applied = "none"
    /\ applied' = "getTopDishesForRestaurant"
    /\ \E u \in Range(UserKeys), r \in Range(RestaurantKeys) :
        /\ arg' = [arg EXCEPT !.slackId = u, !.restaurant = r]
        /\ ret' = getTopDishesForRestaurant(arg.counts, u, r)
    /\ UNCHANGED <<goVars, statsVars>>

GetTopDishesForUser ==
    /\ applied = "none"
    /\ applied' = "getTopDishesForUser"
    /\ \E u \in Range(UserKeys) :
        /\ arg' = [arg EXCEPT !.slackId = u]
        /\ ret' = getTopDishesForUser(arg.counts, u)
    /\ UNCHANGED <<goVars, statsVars>>

GetTopDishes ==
    /\ applied = "none"
    /\ applied' = "getTopDishes"
    /\ ret' = getTopDishes(arg.counts)
    /\ UNCHANGED <<goVars, statsVars, arg>>

DishNext ==
    \/ GetTopDishesForRestaurant
    \/ GetTopDishesForUser
    \/ GetTopDishes

DishSpec == DishInit /\ [][DishNext]_vars

(* ------------------------------ claims ------------------------------- *)

\* the attempt of the running orderFromRestaurant call is under way
InAttempt == pc \in {"steps", "submit"}

\* how many times the step sequence was started in the running call
Invocations == Len(ends) + (IF InAttempt THEN 1 ELSE 0)

\* the user orders of order set k that are not donors
NonDonorNames(k) ==
    {orderSets[k].users[i].username :
        i \in {j \in DOMAIN orderSets[k].users : ~orderSets[k].users[j].isDonor}}

\* C1 as stated: the published results hold exactly one entry per order set,
\* in the order of the order sets, whatever steps, stats recording and pause do.
C1_OneResultPerBatch ==
    \A p \in DOMAIN published :
        /\ Len(published[p]) = Len(orderSets)
        /\ \A k \in DOMAIN published[p] :
              published[p][k].restaurant = orderSets[k].restaurant

\* C1 amended: the published results are the results of the first order sets,
\* one entry each and in their order, whatever the steps do; all order
\* sets are there unless login, stats recording, the callee write or the
\* pause threw (the catch of go() then ends the loop).
C1_ResultsArePrefix ==
    \A p \in DOMAIN published :
        /\ Len(published[p]) <= Len(orderSets)
        /\ \A k \in DOMAIN published[p] :
              published[p][k].restaurant = orderSets[k].restaurant
        /\ (crash = "none") => Len(published[p]) = Len(orderSets)

\* a run of two order sets, the first failed by an exception inside a step,
\* the second successful, nothing thrown in go(): both are published
C1_Witness ==
    /\ published # <<>>
    /\ crash = "none"
    /\ Len(published[1]) = 2
    /\ ~published[1][1].successful
    /\ published[1][1].errors = <<Msg(UnknownText)>>
    /\ published[1][2].successful

\* C2: the step sequence of one orderFromRestaurant call is started at most
\* INITIAL_RETRIES + 1 = 3 times; a call all of whose attempts ended in a
\* retryable step failure made exactly 3 and returns a failure; every call
\* starts with the full budget, whatever earlier order sets consumed.
C2_RetryBudget ==
    /\ Invocations <= INITIAL_RETRIES + 1
    /\ InAttempt => retries = INITIAL_RETRIES - Len(ends)
    /\ (pc = "returned" /\ \A i \in DOMAIN ends : ends[i] = "retryable")
          => (Len(ends) = INITIAL_RETRIES + 1 /\ orderResult.hasErrors)

\* the second order set exhausts its three attempts after the first order
\* set had exhausted its own (its failure is a retryable navigation timeout)
C2_Witness ==
    /\ batch = 2
    /\ pc = "returned"
    /\ ends = <<"retryable", "retryable", "retryable">>
    /\ ~results[1].successful
    /\ results[1].errors = <<Msg(NavTimeoutText)>>

\* C3: an attempt that ends in a fatal step failure is the last attempt of
\* the call: the failing step is the last thing the attempt did, the call has
\* returned, and what it returned is that step's failure.
C3_FatalStops ==
    /\ \A i \in DOMAIN ends :
          ends[i] = "fatal" => (i = Len(ends) /\ pc = "returned")
    /\ \A i \in DOMAIN attemptLog :
          attemptLog[i].kind = "fatal" =>
              /\ i = Len(attemptLog)
              /\ pc = "returned"
              /\ orderResult.hasErrors
              /\ ~orderResult.retry
              /\ orderResult.errors = attemptLog[i].errors

\* a fatal failure of the first step of the first attempt, two retries left
C3_Witness ==
    /\ pc = "returned"
    /\ ends = <<"fatal">>
    /\ Len(attemptLog) = 1
    /\ attemptLog[1].kind = "fatal"
    /\ attemptLog[1].step = Steps(variant)[1]

\* the outcomes with which a step stops its attempt
Failing == {"retryable", "fatal", "throw"}

\* C4: a submission action (the click on the order button, the capture of
\* the confirmation) is issued only after every step of the same attempt, in
\* the order of the steps array, has completed without errors; a step that
\* reports errors or raises is the last thing its attempt does.
C4_SubmitAfterAllSteps ==
    /\ \A i \in DOMAIN attemptLog :
          attemptLog[i].kind = "issued" =>
              /\ i > Len(Steps(variant))
              /\ \A j \in 1..Len(Steps(variant)) :
                    /\ attemptLog[j].step = Steps(variant)[j]
                    /\ attemptLog[j].kind = "ok"
    /\ \A i \in DOMAIN attemptLog :
          attemptLog[i].kind \in Failing => i = Len(attemptLog)

\* an actual order submitted in the third attempt, after two retried ones
C4_Witness ==
    /\ pc = "returned"
    /\ ~dryRun
    /\ ends = <<"retryable", "retryable", "success">>
    /\ attemptLog[Len(attemptLog)].step = "pdf"
    /\ attemptLog[Len(attemptLog) - 1].step = "click"

\* C5 as stated: an attempt ended by an exception that escaped a step (or
\* the submission) is followed by another attempt unless it was the third.
C5_ThrowIsRetried ==
    \A i \in DOMAIN ends :
        ends[i] = "throw" => (i < Invocations \/ i = INITIAL_RETRIES + 1)

\* C6: no exception leaves orderFromRestaurant; what it returns is either a
\* failure with a non-empty errors list or, without an errors field, a
\* result carrying the selected user and the orderAmounts.
C6_ReturnsWellFormed ==
    /\ crash # "order"
    /\ pc = "returned" =>
          \/ /\ orderResult.hasErrors
             /\ Len(orderResult.errors) > 0
          \/ /\ ~orderResult.hasErrors
             /\ orderResult.hasUser
             /\ orderResult.user \notin {Undefined, Null}
             /\ orderResult.hasAmounts

\* an exception in the third attempt (retry depth 2) comes back as a failure
C6_Witness ==
    /\ pc = "returned"
    /\ ends = <<"retryable", "retryable", "throw">>
    /\ orderResult = Caught

\* fillNames has just read the allocations of the page
AllocationsRead == lastAlloc # <<>>

\* C7: when every allocation the page reports is at most 25, fillNames
\* reports no budget violation: it returns nothing and the next step follows.
C7_NoViolationWithinBudget ==
    (AllocationsRead /\ \A i \in DOMAIN lastAlloc : lastAlloc[i] <= BUDGET)
        => /\ ~budgetViolation
           /\ pc = "steps"
           /\ attemptLog[Len(attemptLog)] = [step |-> "fillNames", kind |-> "ok", errors |-> <<>>]

\* two participants, one allocation exactly at the ceiling, no violation
C7_Witness ==
    /\ AllocationsRead
    /\ Len(lastAlloc) = 2
    /\ lastAlloc[1] < BUDGET
    /\ lastAlloc[2] = BUDGET
    /\ ~budgetViolation
    /\ attemptLog[Len(attemptLog)].step = "fillNames"

\* the first index of the greatest element
FirstMaxIndex(s) ==
    CHOOSE i \in DOMAIN s :
        /\ \A j \in DOMAIN s : s[j] <= s[i]
        /\ \A j \in 1..(i - 1) : s[j] < s[i]

\* C8 as stated: a reported violation carries excess = sum of the reported
\* allocations - participant count x 25 and names the participant with the
\* highest reported allocation, the first such under ties.
C8_ViolationNamesMaxAllocation ==
    budgetViolation =>
        /\ orderResult.errors[1].excess
              = SumSeq(lastAlloc) - Len(orderSet.users) * BUDGET
        /\ orderResult.errors[1].user
              = orderSet.users[FirstMaxIndex(lastAlloc)].username

\* fillNames has read an allocation above the ceiling in this attempt
OverBudgetRead == AllocationsRead /\ \E i \in DOMAIN lastAlloc : lastAlloc[i] > BUDGET

\* C9: an allocation above the ceiling read by fillNames, in whatever attempt,
\* ends the call with a failure: neither the callee step nor a submission
\* action ran in that attempt and no further attempt is started; the violation
\* fillNames reports is what the call returns.
C9_ViolationEndsBatch ==
    /\ OverBudgetRead =>
          /\ pc = "returned"
          /\ orderResult.hasErrors
          /\ ends[Len(ends)] \in {"fatal", "throw"}
          /\ \A i \in DOMAIN attemptLog :
                attemptLog[i].step \notin {"fillPhoneNumber", "click", "pdf"}
    /\ budgetViolation =>
          /\ pc = "returned"
          /\ OverBudgetRead
          /\ orderResult.errors[1].text = BudgetText
          /\ ends[Len(ends)] = "fatal"

\* a violation in the third attempt, after two retried attempts
C9_Witness ==
    /\ budgetViolation
    /\ ends = <<"retryable", "retryable", "fatal">>
    /\ pc = "returned"

\* C10: the callee selected in an attempt, the user of a successful return
\* and the userCall of every successful entry of results is one identity, a
\* user order of the same order set that is not a donor.
C10_CalleeIsNonDonor ==
    /\ (InAttempt /\ result.hasUser) => result.user \in NonDonorNames(batch)
    /\ (pc = "returned" /\ ~orderResult.hasErrors) =>
          (orderResult.hasUser /\ orderResult.user \in NonDonorNames(batch))
    /\ \A k \in DOMAIN results :
          results[k].successful => results[k].userCall \in NonDonorNames(k)

\* a successful order set of a donor and a non-donor: the non-donor is called
C10_Witness ==
    /\ variant = "grubhub"
    /\ results # <<>>
    /\ results[1].successful
    /\ Len(orderSets[1].users) = 2
    /\ orderSets[1].users[1].isDonor
    /\ results[1].userCall = orderSets[1].users[2].username

\* the stats calls made for order set k
StatsOf(k) ==
    {i \in DOMAIN statsLog : statsLog[i].restaurant = orderSets[k].restaurant}

\* go() is past the stats recording of order set k, whose result is pushed
StatsDone(k) == k < batch \/ pc # "stats"

\* C11 as stated: every successful order set has exactly one stats call per
\* non-donor user order and none for a donor, a failed one has none.
C11_StatsForEverySuccess ==
    \A k \in DOMAIN results :
        StatsDone(k) =>
            /\ {statsLog[i].username : i \in StatsOf(k)}
                  = (IF results[k].successful THEN NonDonorNames(k) ELSE {})
            /\ Cardinality(StatsOf(k))
                  = (IF results[k].successful THEN Cardinality(NonDonorNames(k)) ELSE 0)

\* C11 amended: in an actual run every successful order set has exactly one
\* stats call per non-donor user order, none for a donor, and a failed order
\* set has none; in a dry run Stats.recordStats is never called at all.
C11_StatsOncePerNonDonor ==
    /\ dryRun => statsLog = <<>>
    /\ \A i \in DOMAIN statsLog :
          \E k \in DOMAIN results :
              /\ statsLog[i].restaurant = orderSets[k].restaurant
              /\ results[k].successful
              /\ statsLog[i].username \in NonDonorNames(k)
    /\ \A i, j \in DOMAIN statsLog :
          (statsLog[i].username = statsLog[j].username
              /\ statsLog[i].restaurant = statsLog[j].restaurant) => i = j
    /\ \A k \in DOMAIN results :
          (~dryRun /\ results[k].successful /\ StatsDone(k)) =>
              {statsLog[i].username : i \in StatsOf(k)} = NonDonorNames(k)

\* an actual Grubhub run: the first order set failed, the second, of a donor
\* and a non-donor, succeeded and only the non-donor's stats were recorded
C11_Witness ==
    /\ variant = "grubhub"
    /\ ~dryRun
    /\ Len(results) = 2
    /\ ~results[1].successful
    /\ results[2].successful
    /\ orderSets[2].users[1].isDonor
    /\ Len(orderSets[2].users) = 2
    /\ Len(statsLog) = 1
    /\ statsLog[1].username = orderSets[2].users[2].username
    /\ statsLog[1].restaurant = orderSets[2].restaurant

\* the order sets whose pushed result is a success
Successes == {k \in DOMAIN results : results[k].successful}

\* C12: Stats.recordStats and Orders.setCallee are called for an order set
\* only after orderFromRestaurant has returned for it and its result is
\* pushed: while the call is running or just returned nothing is written for
\* it, and order sets that failed, whatever their attempts did, never get a
\* stats call or a callee write.
C12_WritesAfterTerminal ==
    /\ pc \in {"loop", "steps", "submit", "returned"} =>
          /\ Len(results) = batch - 1
          /\ StatsOf(batch) = {}
    /\ \A i \in DOMAIN statsLog :
          \E k \in Successes : statsLog[i].restaurant = orderSets[k].restaurant
    /\ Len(calleeLog) <= Cardinality(Successes)
    /\ \A i \in DOMAIN calleeLog :
          \E k \in Successes : calleeLog[i] = results[k].userCall

\* the first order set is recorded; the second has been retried twice and has
\* then failed, and the stores hold what the first order set wrote
C12_Witness ==
    /\ variant = "grubhub"
    /\ batch = 2
    /\ pc = "returned"
    /\ ends = <<"retryable", "retryable", "fatal">>
    /\ results[1].successful
    /\ calleeLog = <<results[1].userCall>>
    /\ statsLog # <<>>
    /\ \A i \in DOMAIN statsLog : statsLog[i].restaurant = orderSets[1].restaurant

\* every step of the running attempt has completed without errors
AllStepsOk ==
    /\ Len(attemptLog) >= Len(Steps(variant))
    /\ \A j \in 1..Len(Steps(variant)) : attemptLog[j].kind = "ok"

\* the page actions of the submit block the attempt has issued
Issued == {attemptLog[i].step : i \in {j \in DOMAIN attemptLog : attemptLog[j].kind = "issued"}}

\* C13 as stated: in a dry run the click on the order button is never issued,
\* and an attempt whose steps all succeeded captures the confirmation and
\* returns a successful result.
C13_DryRunAlwaysSucceeds ==
    dryRun =>
        /\ "click" \notin Issued
        /\ (pc = "returned" /\ AllStepsOk) =>
              /\ "pdf" \in Issued
              /\ ~orderResult.hasErrors

\* C13 amended: in a dry run the click on the order button is never issued in
\* any attempt; an attempt whose steps all succeeded issues the capture of
\* the confirmation instead and returns the accumulated result when the
\* capture returns, the generic failure of the catch block when it raises.
C13_DryRunCaptureOnly ==
    dryRun =>
        /\ "click" \notin Issued
        /\ (pc = "returned" /\ AllStepsOk) =>
              /\ Issued = {"pdf"}
              /\ ends[Len(ends)] \in {"success", "throw"}
              /\ ends[Len(ends)] = "success" =>
                    (~orderResult.hasErrors /\ orderResult.hasUser)
              /\ ends[Len(ends)] = "throw" => orderResult = Caught

\* a dry run whose second attempt went through all steps and the capture
C13_Witness ==
    /\ dryRun
    /\ pc = "returned"
    /\ ends = <<"retryable", "success">>
    /\ AllStepsOk
    /\ Issued = {"pdf"}
    /\ ~orderResult.hasErrors

\* the query occurs in the text when letter case is ignored
ContainsIgnoringCase(t, q) ==
    \E i \in 0..(Len(t) - Len(q)) :
        \A j \in 1..Len(q) : Lower(t[i + j]) = Lower(q[j])

\* the positions of the candidates that contain the query, ignoring case
Matches == {k \in DOMAIN arg.texts : ContainsIgnoringCase(arg.texts[k], arg.query)}

\* a lookup of data_util or the item or option selection of the Seamless
\* fillOrders has been applied
FuzzyApplied ==
    \/ applied \in {"find_restaurant_by_name", "find_item_by_name", "selectOption"}
    \/ applied = "addItem" /\ variant = "seamless"

\* C14: the fuzzy matcher (find_restaurant_by_name, find_item_by_name, the
\* item and option selection of the Seamless fillOrders) resolves to a
\* candidate exactly when some candidate's text contains the query ignoring
\* letter case, the candidate it resolves to is one of those, and it gives
\* no candidate otherwise; "extreme" resolves against "Extreme Pizza",
\* "sushi" does not resolve against "Pizza".
C14_FuzzyMatch ==
    FuzzyApplied =>
        /\ (ret.hit # NotFound) <=> (Matches # {})
        /\ (ret.hit # NotFound) => ret.hit \in Matches
        /\ (arg.texts = <<ExtremePizza>> /\ arg.query = Extreme) => ret.hit = 1
        /\ (arg.texts = <<Pizza>> /\ arg.query = Sushi) => ret.hit = NotFound

\* "extreme" looked up among the restaurants "Pizza" and "Extreme Pizza"
C14_Witness ==
    /\ applied = "find_restaurant_by_name"
    /\ arg.texts = <<Pizza, ExtremePizza>>
    /\ arg.query = Extreme
    /\ ret.hit = 2

\* the least of a non-empty set of positions
Least(S) == CHOOSE k \in S : \A m \in S : k <= m

\* C15 as stated: when several candidates match, the lookups of data_util
\* and the restaurant, item and option selection on the page resolve to the
\* first matching candidate in iteration order.
C15_FirstMatchWins ==
    /\ (FuzzyApplied /\ Matches # {}) => ret.hit = Least(Matches)
    /\ (applied = "chooseRestaurant" /\ ret.hit # NotFound) =>
          \A k \in 1..(ret.hit - 1) : ~includes(arg.texts[k], arg.query)
    /\ (applied = "addItem" /\ variant = "grubhub" /\ ret.hit # NotFound) =>
          \A k \in 1..(ret.hit - 1) : trim(arg.texts[k]) # arg.query

\* the fatal failure of chooseRestaurant and setupRestaurant
RestaurantNotFound == Errors(FALSE, <<Msg(NoRestaurantText)>>)

\* C16 as stated: with nothing raised before the selection, configuring the
\* restaurant fails fatally with "Restaurant does not exist or is closed"
\* when no restaurant name on the page contains the target ignoring case,
\* and selects a restaurant whose name contains it when there is one.
C16_RestaurantBySubstring ==
    /\ (applied = "chooseRestaurant" /\ arg.before = NoExc) =>
          /\ (Matches = {}) => ret.out = RestaurantNotFound
          /\ (Matches # {}) => ret.hit \in Matches
    /\ (applied = "setupRestaurant" /\ arg.before = NoExc /\ arg.texts = <<>>) =>
          ret.out = RestaurantNotFound

\* C18 as stated: an item or an option that matches nothing on the page is
\* skipped: nothing is clicked for it and the step does not fail.
C18_UnmatchedSkipped ==
    (applied \in {"addItem", "selectOption"} /\ ret.hit = NotFound) =>
        ret.out = NoOutput

\* C18 amended: an option that matches no label is skipped, nothing clicked
\* and no failure; an item that matches no link makes fillOrders return a
\* retryable failure carrying the exception (the TypeError of the click on
\* undefined in Seamless, the dialog wait timeout in Grubhub).
C18_OnlyOptionsSkipped ==
    /\ (applied = "selectOption" /\ ret.hit = NotFound) => ret.out = NoOutput
    /\ (applied = "addItem" /\ ret.hit = NotFound) =>
          /\ ret.out.hasErrors
          /\ ret.out.retry
          /\ ret.out.errors =
                <<Msg(IF variant = "seamless" THEN TypeErrorText ELSE WaitTimeoutText)>>
    /\ (applied = "addItem" /\ ret.hit # NotFound) => ret.out = NoOutput

\* "sushi" asked for on a Seamless page whose only item is "Extreme Pizza"
C18_Witness ==
    /\ applied = "addItem"
    /\ variant = "seamless"
    /\ arg.texts = <<ExtremePizza>>
    /\ arg.query = Sushi
    /\ ret.hit = NotFound
    /\ ret.out.retry

\* the steps that configure the restaurant
ConfigSteps == {"chooseTime", "chooseRestaurant", "setupRestaurant"}

\* C17 as stated: a failure of a configuring step is retryable unless it is
\* the restaurant-not-found failure: an attempt such a step ends for good
\* reports "Restaurant does not exist or is closed".
C17_ConfigExceptionsRetry ==
    \A i \in DOMAIN attemptLog :
        (attemptLog[i].step \in ConfigSteps /\ attemptLog[i].kind = "fatal")
            => attemptLog[i].errors = <<Msg(NoRestaurantText)>>

\* the last thing the running attempt did
LastEvent == attemptLog[Len(attemptLog)]

\* fillOrders has found the delivery minimum not met: no continue link on the
\* Seamless page (the branch that then raises), a disabled checkout button
\* on the Grubhub page
MinimumNotMet ==
    /\ attemptLog # <<>>
    /\ LastEvent.step = "fillOrders"
    /\ LastEvent.errors # <<>>
    /\ LastEvent.errors[1].text \in {MinimumText, MapTypeErrorText}

\* C19 as stated: a delivery minimum that is not met is a retryable failure
\* of fillOrders.
C19_MinimumRetried == MinimumNotMet => LastEvent.kind = "retryable"

\* C19 amended: a delivery minimum that is not met ends the call in the
\* attempt that found it, whatever attempts remain: fillOrders fails without
\* retry (or raises), orderFromRestaurant returns a failure and no further
\* attempt is started.
C19_MinimumNotRetried ==
    MinimumNotMet =>
        /\ LastEvent.kind \in {"fatal", "throw"}
        /\ pc = "returned"
        /\ ends[Len(ends)] = LastEvent.kind
        /\ orderResult.hasErrors
        /\ ~orderResult.retry

\* the minimum is not met in the first attempt: two attempts stay unused
C19_Witness ==
    /\ MinimumNotMet
    /\ pc = "returned"
    /\ Len(ends) = 1
    /\ variant = "grubhub"
    /\ orderResult.errors = <<Msg(MinimumText)>>

\* C20 as stated: a delivery minimum that is not met ends the call with a
\* failure without retry whose reasons say that the delivery minimum was not
\* met.
C20_MinimumReasonReported ==
    MinimumNotMet =>
        /\ pc = "returned"
        /\ orderResult.hasErrors
        /\ ~orderResult.retry
        /\ orderResult.errors = <<Msg(MinimumText)>>

\* the position of a step in the steps array
StepIndex(name) == CHOOSE i \in DOMAIN Steps(variant) : Steps(variant)[i] = name

\* C21: every attempt, the first and each retry, starts at the first step
\* with a result that holds no step output; during an attempt the result
\* holds the order amounts only once this attempt's fillOrders has returned
\* them and the events of the attempt are those of its first steps in order;
\* what the call returns comes from its last attempt: the failure of that
\* attempt's last step (or of the catch block), or that attempt's result.
C21_FreshAttempt ==
    /\ pc = "steps" =>
          /\ step = Len(attemptLog) + 1
          /\ \A i \in DOMAIN attemptLog :
                attemptLog[i].step = Steps(variant)[i] /\ attemptLog[i].kind = "ok"
          /\ ~result.hasErrors
          /\ ~result.hasUser
          /\ result.hasAmounts <=> step > StepIndex("fillOrders")
          /\ ~result.hasAmounts => result.orderAmounts = <<>>
    /\ (pc = "returned" /\ orderResult.hasErrors) =>
          /\ ~orderResult.hasAmounts
          /\ ~orderResult.hasUser
          /\ ends[Len(ends)] \in Failing
          /\ \/ orderResult = Caught
             \/ orderResult.errors = attemptLog[Len(attemptLog)].errors
    /\ (pc = "returned" /\ ~orderResult.hasErrors) =>
          /\ ends[Len(ends)] = "success"
          /\ orderResult.hasAmounts
          /\ orderResult.hasUser

\* a third attempt is at its first step, the result empty again
C21_Witness ==
    /\ pc = "steps"
    /\ ends = <<"retryable", "retryable">>
    /\ step = 1
    /\ attemptLog = <<>>
    /\ ~result.hasAmounts
    /\ ~result.hasUser

\* C22 as stated: the failure a call returns carries the reasons of all the
\* attempts made, one for each attempt that failed.
C22_ReasonsAccumulated ==
    (pc = "returned" /\ orderResult.hasErrors) =>
        Len(orderResult.errors) = Len(ends)

\* go() has ended: process.exit was called, or go() rejected
Ended == pc \in {"exited", "rejected"}

\* C23 as stated: every run publishes its results exactly once before it
\* ends.
C23_PublishedOncePerRun == Ended => Len(published) = 1

\* C23 amended: the results are published at most once, after the loop over
\* the order sets has ended (after all of them unless the catch of go() ended
\* it) and before process.exit; once published, go() is only at the exit or
\* has ended, so no step, stats write or pause follows. A run that has order
\* sets and reaches the exit has published exactly once; a run without
\* orders exits without publishing.
C23_PublishedAtMostOnce ==
    /\ Len(published) <= 1
    /\ published # <<>> =>
          /\ pc \in {"exit", "exited", "rejected"}
          /\ published[1] = results
          /\ crash = "none" => Len(results) = Len(orderSets)
    /\ pc = "exit" => Len(published) = 1
    /\ pc = "exited" => Len(published) = (IF orderSets = <<>> THEN 0 ELSE 1)

\* two order sets, the second failed; published once and exited
C23_Witness ==
    /\ pc = "exited"
    /\ Len(orderSets) = 2
    /\ Len(published) = 1
    /\ Len(published[1]) = 2
    /\ ~published[1][2].successful

\* C24 as stated, for the runs that got to the publishing: a run can only
\* stop in process.exit, so whenever go() has published and can do nothing
\* more, the process has exited.
C24_ExitReached == (published # <<>> /\ ~ENABLED Next) => pc = "exited"

\* C25: an exception raised by login, stats recording, the callee write or
\* the pause is caught by go(): the loop ends, the results pushed so far
\* (none after a login failure, those of the order sets up to the current one
\* otherwise) are published as they are, and go() does not reject because
\* of that exception.
C25_CrashPublishesPartial ==
    crash # "none" =>
        /\ crash \in {"login", "stats", "callee", "pause"}
        /\ pc \in {"publish", "exit", "exited", "rejected"}
        /\ pc = "rejected" => published # <<>>
        /\ Len(results) = (IF crash = "login" THEN 0 ELSE batch)
        /\ \A k \in DOMAIN results : results[k].restaurant = orderSets[k].restaurant
        /\ published # <<>> => published = <<results>>

\* the pause after the first of two order sets raised: its result alone is
\* published
C25_Witness ==
    /\ crash = "pause"
    /\ Len(orderSets) = 2
    /\ batch = 1
    /\ published = <<results>>
    /\ Len(results) = 1
    /\ pc = "exited"

NamesApplied == applied = "fillNames"

\* C27 as stated: fillNames enters the name of every non-donor participant
\* and of no donor.
C27_OnlyNonDonorsEntered ==
    (NamesApplied /\ arg.throwsAt = 0) =>
        \A i \in DOMAIN arg.users :
            (arg.users[i].username \in Range(ret.entered)) <=> ~arg.users[i].isDonor

\* C27 amended: fillNames enters, in the order of the user orders, the name
\* of every participant of the order set, donors included; the Grubhub
\* variant leaves out the participant whose directory name is the ordering
\* account's. The budget check comes after the last name: when entering a
\* name raises, the names before it are entered and no budget outcome is
\* returned, and a budget violation is returned only with all names entered.
C27_AllParticipantsEntered ==
    NamesApplied =>
        LET ids == Usernames(arg.users)
            skipped(id) == variant = "grubhub" /\ id = arg.owner
        IN  /\ arg.throwsAt = 0 =>
                /\ \A i \in DOMAIN ids : (ids[i] \in Range(ret.entered)) <=> ~skipped(ids[i])
                /\ Len(ret.entered) = Cardinality(Range(ret.entered))
            /\ \A j, k \in DOMAIN ret.entered :
                  j < k => \E a, b \in DOMAIN ids :
                              a < b /\ ids[a] = ret.entered[j] /\ ids[b] = ret.entered[k]
            /\ arg.throwsAt # 0 =>
                /\ ret.out = Thrown
                /\ \A i \in DOMAIN ids :
                      (ids[i] \in Range(ret.entered)) <=> (i < arg.throwsAt /\ ~skipped(ids[i]))
            /\ (ret.out.hasErrors /\ ret.out # Thrown) =>
                /\ arg.throwsAt = 0
                /\ ret.out.errors[1].text = BudgetText
                /\ ExceededBudget(arg.alloc)

\* a donor and a non-donor, nobody skipped: both names are entered and the
\* budget check reports a violation
C27_Witness ==
    /\ NamesApplied
    /\ variant = "grubhub"
    /\ Len(arg.users) = 2
    /\ arg.users[1].isDonor
    /\ ~arg.users[2].isDonor
    /\ arg.owner = Undefined
    /\ ret.entered = Usernames(arg.users)
    /\ ret.out.hasErrors
    /\ ret.out.errors[1].text = BudgetText

\* C28 as stated: once fillOrders has succeeded in an attempt, the result of
\* the attempt holds an amount for every participant of the order set, and
\* every Stats.recordStats call is passed an amount.
C28_AmountsRecorded ==
    /\ (pc = "steps" /\ step > StepIndex("fillOrders")) =>
          \A i \in DOMAIN orderSet.users :
              HasAmount(result.orderAmounts, orderSet.users[i].username)
    /\ \A k \in DOMAIN statsLog : statsLog[k].hasDollars

\* the handler has been applied to the request arg
Handled == applied = "do"

\* the request passed the guards of do() and would change the orders when
\* placed in time: a regular order, the order of the favorite, or the forget
\* of an order
OrderCommand ==
    /\ ~rejectsRequest(arg)
    /\ \/ arg.command \in {"Regular Order", "Order Favorite"}
       \/ arg.command = "Forget" /\ arg.forgetWhat \notin {"info", "favorite", "fav"}

\* C29 as stated: isLate() is true exactly for the times after 15:30, and
\* then every order command replies that Alfred has already ordered and
\* makes no write on the orders store.
C29_LateOrdersRefused ==
    Handled =>
        /\ isLate(arg.hour, arg.minute) <=>
              (arg.hour >= 16 \/ (arg.hour = 15 /\ arg.minute > 30))
        /\ (OrderCommand /\ isLate(arg.hour, arg.minute)) =>
              /\ ret.body = LateText
              /\ \A k \in DOMAIN ret.calls : ret.calls[k] \notin OrderWrites

\* C29 amended: isLate() is true exactly for the times after 15:30; then a
\* regular order and the order of the favorite reply that Alfred has
\* already ordered, the forget of an order does so for a registered
\* requester and replies with the request to register otherwise, and none
\* of them writes to the orders store.
C29_LateOrdersRefusedIfRegistered ==
    Handled =>
        /\ isLate(arg.hour, arg.minute) <=>
              (arg.hour >= 16 \/ (arg.hour = 15 /\ arg.minute > 30))
        /\ (OrderCommand /\ isLate(arg.hour, arg.minute)) =>
              /\ ret.body = IF arg.command = "Forget" /\ ~arg.registered
                            THEN RegisterText ELSE LateText
              /\ ret.next
              /\ \A k \in DOMAIN ret.calls : ret.calls[k] \notin OrderWrites

\* a registered requester forgets the order at 15:31 and is refused
C29_Witness ==
    /\ Handled
    /\ OrderCommand
    /\ arg.command = "Forget"
    /\ arg.registered
    /\ arg.hour = 15
    /\ arg.minute = 31
    /\ ret.body = LateText

\* C30: a request with another token, without text or user_name, or from
\* slackbot makes no call on the users, orders or stats stores, sets no
\* response body and does not call next().
C30_RejectedRequestsNoEffect ==
    (Handled /\ (\/ arg.token # slackIncomingToken
                 \/ arg.text \in {Undefined, ""}
                 \/ arg.user_name \in {Undefined, "", "slackbot"})) =>
        /\ ret.calls = <<>>
        /\ ret.body = Undefined
        /\ ~ret.next
        /\ ~ret.threw

\* a request of slackbot with the right token and a text was handled
C30_Witness ==
    /\ Handled
    /\ arg.token = slackIncomingToken
    /\ arg.text = "text"
    /\ arg.user_name = "slackbot"
    /\ ret = Ignored
    /\ arg.command = "Regular Order"
    /\ arg.registered

\* the calls of the handled request that write to a store
WritesMade == {ret.calls[k] : k \in DOMAIN ret.calls} \cap StoreWrites

\* C31: a request of a requester without a user record makes no write on
\* the users or orders stores, whatever the command, the arguments and the
\* time, unless the command is Set Info.
C31_UnregisteredWritesNothing ==
    (Handled /\ ~arg.registered /\ arg.command # "Set Info") => WritesMade = {}

\* an unregistered requester asks, in time, to forget the info and is told
\* to register
C31_Witness ==
    /\ Handled
    /\ ~rejectsRequest(arg)
    /\ ~arg.registered
    /\ arg.command = "Forget"
    /\ arg.forgetWhat = "info"
    /\ ~isLate(arg.hour, arg.minute)
    /\ ret.body = RegisterText
    /\ ret.next

\* the requester's order of today, for a requester who has one
YourOrder == arg.orders[CHOOSE i \in OrderOf(arg.orders, arg.user_name) : TRUE]

\* C32: the Announce text is the reply only to a request that passed the
\* guards of do(), from a registered requester who has an order today that
\* is marked as callee; it then addresses exactly the users who have an
\* order today from the restaurant of the requester's order.
C32_AnnounceToFellows ==
    (Handled /\ ret.body = FoodText) =>
        /\ arg.command = "Announce"
        /\ ~rejectsRequest(arg)
        /\ arg.registered
        /\ OrderOf(arg.orders, arg.user_name) # {}
        /\ arg.isCallee
        /\ \A i \in DOMAIN arg.orders :
              (arg.orders[i].username \in Range(ret.at)) <=>
                  arg.orders[i].restaurant = YourOrder.restaurant
        /\ Range(ret.at) \subseteq {arg.orders[i].username : i \in DOMAIN arg.orders}

\* three orders of today, the callee's and another one from r1 and one from
\* r2: the callee and the other user of r1 are addressed
C32_Witness ==
    /\ Handled
    /\ ret.body = FoodText
    /\ Len(arg.orders) = 3
    /\ YourOrder.restaurant = "r1"
    /\ Len(ret.at) = 2
    /\ \E i \in DOMAIN arg.orders : arg.orders[i].restaurant = "r2"

\* the stats calls of order set k that carry the callee flag
CalleeStats(k) == {i \in StatsOf(k) : statsLog[i].isCallee}

\* the place of order set k among the successful ones
Rank(k) == Cardinality({j \in Successes : j <= k})

\* go() is past the callee write of order set k, which did not end in the
\* catch before it
CalleeDone(k) ==
    /\ k < batch \/ pc \notin {"stats", "callee"}
    /\ ~(k = batch /\ crash = "stats")

\* C33: in an actual run, once the stats of a successful order set are
\* recorded, exactly one of its stats calls carries the callee flag, and it
\* is the call for the user published as userCall; in the Grubhub variant
\* the callee writes follow the successful order sets one to one and each
\* writes that same user, and the Seamless variant writes no callee.
C33_OneCalleeRecord ==
    /\ \A k \in Successes :
          (~dryRun /\ StatsDone(k)) =>
              /\ Cardinality(CalleeStats(k)) = 1
              /\ \A i \in CalleeStats(k) : statsLog[i].username = results[k].userCall
              /\ (variant = "grubhub" /\ CalleeDone(k)) => Rank(k) \in DOMAIN calleeLog
              /\ Rank(k) \in DOMAIN calleeLog => calleeLog[Rank(k)] = results[k].userCall
    /\ Len(calleeLog) <= Cardinality(Successes)
    /\ (variant = "seamless" \/ dryRun) => calleeLog = <<>>

\* an actual Grubhub run: the order set of two users who are no donors
\* succeeded, the second is the callee, two stats calls and the callee write
\* are made
C33_Witness ==
    /\ variant = "grubhub"
    /\ ~dryRun
    /\ pc = "pause"
    /\ batch = 1
    /\ results[1].successful
    /\ Len(orderSets[1].users) = 2
    /\ Len(statsLog) = 2
    /\ results[1].userCall = orderSets[1].users[2].username
    /\ ~statsLog[1].isCallee
    /\ statsLog[2].isCallee
    /\ calleeLog = <<results[1].userCall>>

\* C34 as stated: the excess of every budget violation fillNames reports is
\* strictly positive.
C34_ExcessPositive ==
    (NamesApplied /\ ret.out.hasErrors /\ ret.out.errors[1].text = BudgetText) =>
        ret.out.errors[1].excess > 0

\* C35 as stated: in a dry run the message that everything looks good is
\* sent only with a successful result for every order set of the run.
C35_LooksGoodOnlyIfAllSucceeded ==
    \A p \in DOMAIN published :
        (postToSlack /\ dryRun /\ FinishedText(published[p], dryRun) = LooksGoodText) =>
            /\ Len(published[p]) = Len(orderSets)
            /\ \A k \in DOMAIN published[p] : published[p][k].successful

\* C36 as stated: every stats operation that runs finds the stats
\* collection assigned.
C36_StatsAssignedBeforeUse ==
    \A i \in DOMAIN statsOps : statsOps[i].stats # Undefined

\* the character at position i of str (counted from 1) is inside brackets:
\* the last bracket up to it is an opening one
InBrackets(str, i) ==
    \E j \in 1..i :
        /\ str[j] = "["
        /\ \A k \in (j + 1)..i : str[k] \notin {"[", "]"}

\* the positions of the commas of str that lie outside brackets
TopCommas(str) == {i \in DOMAIN str : str[i] = "," /\ ~InBrackets(str, i)}

\* the top-level comma number k of str; 0 for k = 0 and the position after
\* the end for the one after the last
RECURSIVE Comma(_, _)
Comma(str, k) ==
    IF k = 0 THEN 0
    ELSE IF k > Cardinality(TopCommas(str)) THEN Len(str) + 1
    ELSE CHOOSE i \in TopCommas(str) :
            /\ i > Comma(str, k - 1)
            /\ \A j \in TopCommas(str) : j > Comma(str, k - 1) => i <= j

\* the trimmed segments between the top-level commas of str, in order
Segments(str) ==
    [k \in 1..(Cardinality(TopCommas(str)) + 1) |->
        trim(SubSeq(str, Comma(str, k - 1) + 1, Comma(str, k) - 1))]

\* C37 as stated: splitOutsideParens returns, in order, the trimmed segments
\* between the commas outside brackets, each exactly once, whatever the
\* length of the last one.
C37_SplitsAtTopLevelCommas ==
    applied = "splitOutsideParens" => ret = Segments(arg)

\* the dishes a query ranks, as a set: those of one user at one restaurant,
\* those of one user, and those of all users with their counts added up
Ranked ==
    LET c == arg.counts
        of(us, rs) ==
            {d \in [itemName : Range(ItemKeys), restaurant : rs, count : 1..(MaxCount * Len(UserKeys))] :
                /\ d.count = SumSeq([k \in DOMAIN UserKeys |->
                                        IF UserKeys[k] \in us
                                        THEN CountOf(c, UserKeys[k], d.restaurant, d.itemName)
                                        ELSE 0])}
    IN  IF applied = "getTopDishesForRestaurant" THEN of({arg.slackId}, {arg.restaurant})
        ELSE IF applied = "getTopDishesForUser" THEN of({arg.slackId}, Range(RestaurantKeys))
        ELSE of(Range(UserKeys), Range(RestaurantKeys))

\* a top-dishes query has returned an array
TopsReturned ==
    /\ applied \in {"getTopDishesForRestaurant", "getTopDishesForUser", "getTopDishes"}
    /\ ~ret.undefined
    /\ ~ret.threw

\* C38: the array a top-dishes query returns has at most N_TOP_DISHES
\* dishes, each a different ranked dish with its count, in non-increasing
\* order of count, and no ranked dish left out has a higher count than a
\* returned one; it is shorter than N_TOP_DISHES only when every ranked dish
\* is in it
C38_TopDishes ==
    TopsReturned =>
        /\ Len(ret.tops) <= N_TOP_DISHES
        /\ \A k \in DOMAIN ret.tops :
            LET t == ret.tops[k]
            IN  [itemName |-> t.itemName, restaurant |-> t.restaurant, count |-> t.count] \in Ranked
        /\ \A j, k \in DOMAIN ret.tops :
            /\ j < k => ret.tops[j].count >= ret.tops[k].count
            /\ j # k => ret.tops[j] # ret.tops[k]
        /\ \A d \in Ranked \ Range(ret.tops) :
            /\ Len(ret.tops) = N_TOP_DISHES
            /\ \A k \in DOMAIN ret.tops : d.count <= ret.tops[k].count

\* a query over more than N_TOP_DISHES dishes of different counts returned
\* the N_TOP_DISHES highest
C38_Witness ==
    /\ TopsReturned
    /\ Cardinality(Ranked) > N_TOP_DISHES
    /\ Len(ret.tops) = N_TOP_DISHES
    /\ \E d \in Ranked \ Range(ret.tops) : d.count < ret.tops[N_TOP_DISHES].count
    /\ ret.tops[1].count > ret.tops[N_TOP_DISHES].count

====
